---- MODULE Spec2Model ----
(***************************************************************************)
(* Request handling of the ZTF light-curve API: the by-identifier and      *)
(* by-region handlers of every API generation kept in the repository       *)
(*   v1old  src/app.py            (Postgres, first generation)             *)
(*   v2old  src/app/v2.py         (ClickHouse, first generation)           *)
(*   v1     src/app/app/v1.py     (Postgres)                               *)
(*   v2     src/app/app/v2.py     (ClickHouse, dr2)                        *)
(*   v3     src/app/v3.py         (ClickHouse, several data releases)      *)
(* A handler is modelled from one suspension point (await of a backend     *)
(* call) to the next.  A backend call answers with the rows its SQL text    *)
(* selects from some content of the table it reads, or raises.             *)
(* Angles are integers in arcseconds on a one-dimensional sky.             *)
(***************************************************************************)
EXTENDS Integers, Sequences, FiniteSets, TLC

VARIABLES
    request,    \* the request being handled
    pc,         \* position of the handler
    oids,       \* handler local: parsed identifiers (sequence)
    lcs,        \* handler local: observation rows of the region (sequence)
    metas,      \* handler local: oid -> summary row
    metas_short,\* handler local: oid -> short summary row
    todo,       \* handler local: identifiers the loop still has to visit
    cur,        \* handler local: the loop's current identifier and summary
    data,       \* handler local: the mapping under construction
    queries,    \* backend calls issued so far for this request
    fault,      \* history: the backend raised of its own accord
    response,   \* the response sent
    codec,      \* a value on its way through the spoint / scircle codec
    builder,    \* the WHERE clause of the region query under construction
    startup,    \* app_on_startup and its probe of the backend
    pool,       \* the connection pool and the requests that share it
    site        \* several v3 requests in flight on one unchanging backend

\* The state of a request handler.
handlerVars == <<request, pc, oids, lcs, metas, metas_short, todo, cur, data,
                 queries, fault, response>>

\* The state of the parts that are exercised on their own.
aside == <<codec, builder, startup, pool, site>>

\* What each of these parts leaves alone.
besideCodec == <<handlerVars, builder, startup, pool, site>>
besideBuilder == <<handlerVars, codec, startup, pool, site>>
besideStartup == <<handlerVars, codec, builder, pool, site>>
besidePool == <<handlerVars, codec, builder, startup, site>>
besideSite == <<handlerVars, codec, builder, startup, pool>>

vars == <<handlerVars, aside>>

----------------------------------------------------------------------------
(* Bounds *)

MaxReqOids == 2     \* longest list of identifiers in a request
MaxObsRows == 3     \* most rows in the observation table

----------------------------------------------------------------------------
(* Program constants *)

MAX_RADIUS == 60

H3EdgeAngle10 == 2

FILTERS == (1 :> "zg") @@ (2 :> "zr") @@ (3 :> "zi")

LC_FIELDS_V3 == {"mjd", "mag", "magerr", "clrcoeff"}

LC_FIELDS_V2 == {"mjd", "mag", "magerr", "clrcoeff", "catflags"}

AVAILABLE_DRS == {"dr2", "dr3", "dr4", "dr8", "latest"}

SHORT_META_DRS == {"dr2", "dr3"}

LATEST_DR == "dr8"

Versions == {"v1old", "v2old", "v1", "v2", "v3"}

LC_FIELDS(version) == IF version = "v3" THEN LC_FIELDS_V3 ELSE LC_FIELDS_V2

----------------------------------------------------------------------------
(* Python values and conversions *)

\* A text is a tuple of one-character strings.
Digits == {"0", "1", "2", "3", "4", "5", "6", "7", "8", "9"}

DigitVal(c) ==
    CASE c = "0" -> 0 [] c = "1" -> 1 [] c = "2" -> 2 [] c = "3" -> 3
      [] c = "4" -> 4 [] c = "5" -> 5 [] c = "6" -> 6 [] c = "7" -> 7
      [] c = "8" -> 8 [] c = "9" -> 9

RECURSIVE DigitsValue(_, _)
DigitsValue(s, acc) ==
    IF s = <<>> THEN acc
    ELSE DigitsValue(Tail(s), 10 * acc + DigitVal(Head(s)))

\* JSON / query values: a string, a number, null.
JStr(s) == [type |-> "str", s |-> s, n |-> 0]
JNum(n) == [type |-> "int", s |-> <<>>, n |-> n]
JNull == [type |-> "null", s |-> <<>>, n |-> 0]

Ok(v) == [ok |-> TRUE, val |-> v, exc |-> "none"]
Raise(e) == [ok |-> FALSE, val |-> 0, exc |-> e]

\* int(x): a str is an optional sign and decimal digits, else ValueError;
\* an int is itself; None is a TypeError.
PyInt(x) ==
    CASE x.type = "int" -> Ok(x.n)
      [] x.type = "null" -> Raise("TypeError")
      [] x.type = "str" ->
            LET signed == Len(x.s) > 0 /\ Head(x.s) \in {"-", "+"}
                body == IF signed THEN Tail(x.s) ELSE x.s
            IN  IF body = <<>> \/ \E i \in 1..Len(body) : body[i] \notin Digits
                THEN Raise("ValueError")
                ELSE IF signed /\ Head(x.s) = "-"
                     THEN Ok(0 - DigitsValue(body, 0))
                     ELSE Ok(DigitsValue(body, 0))

\* A float is an integer number of arcseconds or NaN.
Num(v) == [nan |-> FALSE, v |-> v]
NaN == [nan |-> TRUE, v |-> 0]

\* float(s): "nan" is NaN, an integer literal is its value, else ValueError.
PyFloat(s) ==
    IF s = <<"n", "a", "n">> THEN [ok |-> TRUE, val |-> NaN, exc |-> "none"]
    ELSE LET r == PyInt(JStr(s))
         IN  IF r.ok THEN [ok |-> TRUE, val |-> Num(r.val), exc |-> "none"]
             ELSE [ok |-> FALSE, val |-> NaN, exc |-> "ValueError"]

\* IEEE comparisons: every comparison with NaN is false.
FloatLE(a, b) == ~a.nan /\ ~b.nan /\ a.v <= b.v
FloatGT(a, b) == ~a.nan /\ ~b.nan /\ a.v > b.v
FloatLT(a, b) == ~a.nan /\ ~b.nan /\ a.v < b.v

\* A query-string parameter: absent, or a text.
Absent == [present |-> FALSE, s |-> <<>>]
Param(s) == [present |-> TRUE, s |-> s]

EmptyMap == <<>>

Keys(m) == DOMAIN m

Abs(n) == IF n < 0 THEN 0 - n ELSE n

----------------------------------------------------------------------------
(* Backend content: what the tables may hold *)

Oids == {1, 2}

\* geoToH3(ra, dec, 10) on the one-dimensional sky: the cell of width
\* h3EdgeAngle(10) that holds ra.
GeoToH3(ra) == ra \div H3EdgeAngle10

\* h3kRing(cell, k): the cells within k steps of cell.
H3kRing(cell, k) == (cell - k)..(cell + k)

ObsRow(oid, ra, mjd, catflags, magerr) ==
    [oid |-> oid, ra |-> ra, dec |-> 0, h3index10 |-> GeoToH3(ra),
     mjd |-> mjd, mag |-> 15, magerr |-> magerr, clrcoeff |-> 0,
     catflags |-> catflags]

\* Identifier 1 has rows in two cells; identifier 2 has a flagged row and a
\* row without a magnitude error.
ObsUniverse ==
    {ObsRow(1, 0, 1, 0, 1), ObsRow(1, 0, 2, 0, 1), ObsRow(1, 3, 1, 0, 1),
     ObsRow(2, 0, 1, 0, 1), ObsRow(2, 0, 2, 1, 1), ObsRow(2, 0, 2, 0, 0)}

ObsTables == {T \in SUBSET ObsUniverse : Cardinality(T) <= MaxObsRows}

MetaRow(oid, ngoodobs, filter, ra) ==
    [oid |-> oid, nobs |-> 3, ngoodobs |-> ngoodobs, durgood |-> 7,
     filter |-> filter, fieldid |-> 1, rcid |-> 0, ra |-> ra, dec |-> 0,
     h3index10 |-> GeoToH3(ra)]

\* A good row, a row without good observations, a row with a passband code
\* FILTERS does not know; identifier 1 also a row in the second cell.
MetaVariants(oid) ==
    {MetaRow(oid, 2, 1, 0), MetaRow(oid, 0, 1, 0), MetaRow(oid, 2, 4, 0)}
    \cup (IF oid = 1 THEN {MetaRow(oid, 2, 1, 3)} ELSE {})

\* A summary table holds at most one row per identifier.
MetaTables ==
    UNION {{T \in [S -> UNION {MetaVariants(o) : o \in S}] :
                \A o \in S : T[o] \in MetaVariants(o)} : S \in SUBSET Oids}

\* The short-window duration tells the rows of the two identifiers apart.
ShortRow(oid, ngoodobs) == [oid |-> oid, ngoodobs |-> ngoodobs, durgood |-> oid]

ShortTables ==
    UNION {{T \in [S -> {ShortRow(o, n) : o \in S, n \in {0, 1}}] :
                \A o \in S : T[o].oid = o} : S \in SUBSET Oids}

\* dr1_info: the identifiers that have a row to join with dr1_meta.
InfoTables == SUBSET Oids

----------------------------------------------------------------------------
(* Backend queries: the rows a query text selects from a table *)

Perms(S) ==
    {f \in [1..Cardinality(S) -> S] : \A x \in S : \E i \in DOMAIN f : f[i] = x}

ByMjd(a, b) == a.mjd < b.mjd

ByOidMjd(a, b) == a.oid < b.oid \/ (a.oid = b.oid /\ a.mjd < b.mjd)

ByH3OidMjd(a, b) ==
    \/ a.h3index10 < b.h3index10
    \/ a.h3index10 = b.h3index10 /\ ByOidMjd(a, b)

\* Row a sorts before row b under the ORDER BY columns.
Less(columns, a, b) ==
    CASE columns = "mjd" -> ByMjd(a, b)
      [] columns = "oid, mjd" -> ByOidMjd(a, b)
      [] columns = "h3index10, oid, mjd" -> ByH3OidMjd(a, b)

\* ORDER BY: the orders of the rows of S that do not decrease under the
\* columns (rows that tie come in any order).
OrderBy(S, columns) ==
    {f \in Perms(S) : \A i, j \in DOMAIN f : i < j => ~Less(columns, f[j], f[i])}

\* SELECT * FROM {table} WHERE oid IN {oids_array} [AND ngoodobs > 0]
\* as a dict keyed by oid.
SelectMetaForOids(T, oidset, goodonly) ==
    LET hit == {o \in DOMAIN T : o \in oidset /\ (goodonly => T[o].ngoodobs > 0)}
    IN  [o \in hit |-> T[o]]

\* SELECT * FROM {table} WHERE h3index10 = .. AND oid = .. AND catflags = 0
\* [AND magerr > 0] ORDER BY mjd
SelectLcForOidH3(T, oid, h3, version) ==
    OrderBy({r \in T : /\ r.h3index10 = h3
                       /\ r.oid = oid
                       /\ r.catflags = 0
                       /\ (version = "v3" => r.magerr > 0)}, "mjd")

\* toUInt8(x): truncation to an unsigned byte.
ToUInt8(x) == x % 256

\* The number of cell rings of the coarse filter.
RingSize(radius) == ToUInt8(radius \div H3EdgeAngle10) + 1

\* The rows of get_lcs_in_circle: coarse cell filter AND exact distance,
\* v3 also catflags = 0 AND magerr > 0; v3 orders by (h3index10, oid, mjd),
\* v2 by (oid, mjd).  A NaN radius compares false with every distance.
SelectLcsInCircle(T, ra, radius, version) ==
    IF ra.nan \/ radius.nan THEN {<<>>}
    ELSE LET rows == {r \in T :
                        /\ r.h3index10 \in H3kRing(GeoToH3(ra.v), RingSize(radius.v))
                        /\ Abs(r.ra - ra.v) < radius.v
                        /\ (version = "v3" => r.catflags = 0 /\ r.magerr > 0)}
         IN  IF version = "v3" THEN OrderBy(rows, "h3index10, oid, mjd")
             ELSE OrderBy(rows, "oid, mjd")

\* SELECT * FROM dr1_meta INNER JOIN dr1_info USING(oid) WHERE oid = $1
\* (fetchrow: the row, or None).
SelectMetaForOid(T, I, oid) ==
    IF oid \in DOMAIN T /\ oid \in I THEN {T[oid]} ELSE {}

\* SELECT * FROM dr1_good_lc WHERE oid = $1 ORDER BY mjd
SelectLcForOid(T, oid) == OrderBy({r \in T : r.oid = oid}, "mjd")

\* What a call may answer: the rows its query selects from some content of
\* the table.
MetasAnswers(oidset, goodonly) ==
    {SelectMetaForOids(T, oidset, goodonly) : T \in MetaTables}

MetasShortAnswers(oidset) ==
    {SelectMetaForOids(T, oidset, TRUE) : T \in ShortTables}

LcAnswers(oid, h3, version) ==
    UNION {SelectLcForOidH3(T, oid, h3, version) : T \in ObsTables}

LcsInCircleAnswers(ra, radius, version) ==
    UNION {SelectLcsInCircle(T, ra, radius, version) : T \in ObsTables}

----------------------------------------------------------------------------
(* Responses *)

NoResponse == [status |-> 0, exc |-> "none", reason |-> "none", json |-> FALSE,
               body |-> EmptyMap]

\* raise HTTPBadRequest(reason=...)
HTTPBadRequest(reason) ==
    [status |-> 400, exc |-> "HTTPBadRequest", reason |-> reason, json |-> FALSE,
     body |-> EmptyMap]

\* raise HTTPNotFound(reason=...)
HTTPNotFound(reason) ==
    [status |-> 404, exc |-> "HTTPNotFound", reason |-> reason, json |-> FALSE,
     body |-> EmptyMap]

\* raise HTTPInternalServerError(reason=...)
HTTPInternalServerError(reason) ==
    [status |-> 500, exc |-> "HTTPInternalServerError", reason |-> reason,
     json |-> FALSE, body |-> EmptyMap]

\* An exception no handler catches: the server answers 500.
Unhandled(exc) ==
    [status |-> 500, exc |-> exc, reason |-> "none", json |-> FALSE,
     body |-> EmptyMap]

\* Response(text=..., status=...): a text body; status defaults to 200.
TextResponse(reason, status) ==
    [status |-> status, exc |-> "none", reason |-> reason, json |-> FALSE,
     body |-> EmptyMap]

DefaultStatus == 200

\* json_response(data)
JsonResponse(d) ==
    [status |-> DefaultStatus, exc |-> "none", reason |-> "none", json |-> TRUE,
     body |-> d]

\* The result of a step that returns a value or ends the request.
Value(v) == [ok |-> TRUE, val |-> v, resp |-> NoResponse]
Ends(r) == [ok |-> FALSE, val |-> <<>>, resp |-> r]

----------------------------------------------------------------------------
(* Request parsing: src/app/util.py, src/app/app/util.py, src/app.py *)

\* oid_to_int: int(oid), a ValueError becomes HTTPBadRequest; any other
\* exception is not caught.
oid_to_int(x) ==
    LET r == PyInt(x)
    IN  IF r.ok THEN Value(r.val)
        ELSE IF r.exc = "ValueError" THEN Ends(HTTPBadRequest("oid_not_int"))
        ELSE Ends(Unhandled(r.exc))

\* [oid_to_int(oid) for oid in oids]: the first failure ends the request.
RECURSIVE OidsToInts(_, _)
OidsToInts(xs, acc) ==
    IF xs = <<>> THEN Value(acc)
    ELSE LET r == oid_to_int(Head(xs))
         IN  IF r.ok THEN OidsToInts(Tail(xs), Append(acc, r.val)) ELSE r

\* src/app/util.py oids_from_request: the "oid" values of the query string.
oids_from_request(req) ==
    IF ~req.oid.present THEN Ends(HTTPBadRequest("oid_missing"))
    ELSE OidsToInts(req.oid.list, <<>>)

\* src/app/app/util.py oids_from_get_request
oids_from_get_request(req) ==
    IF ~req.oid.present THEN Ends(HTTPBadRequest("oid_missing"))
    ELSE Value(req.oid.list)

\* record['oid'] for the records of the body, in order: a dict without the
\* key is a KeyError (HTTPBadRequest), a record that is no dict a TypeError.
RECURSIVE PostRecords(_, _)
PostRecords(items, acc) ==
    IF items = <<>> THEN Value(acc)
    ELSE LET record == Head(items)
         IN  IF record.kind # "dict" THEN Ends(Unhandled("TypeError"))
             ELSE IF ~record.haskey THEN Ends(HTTPBadRequest("oid_key_missing"))
             ELSE PostRecords(Tail(items), Append(acc, record.value))

\* src/app/app/util.py oids_from_post_request
oids_from_post_request(req) ==
    IF req.body.kind = "notjson" THEN Ends(HTTPBadRequest("json_parse"))
    ELSE IF req.body.kind # "list" THEN Ends(HTTPBadRequest("json_not_list"))
    ELSE PostRecords(req.body.items, <<>>)

\* src/app/app/util.py oids_from_request (a coroutine function)
oids_from_request_async(req) ==
    LET raw == IF req.method = "GET" THEN oids_from_get_request(req)
               ELSE IF req.method = "POST" THEN oids_from_post_request(req)
               ELSE Ends(HTTPBadRequest("method"))
    IN  IF raw.ok THEN OidsToInts(raw.val, <<>>) ELSE raw

\* The range check on the radius.
RadiusOutOfRange(radius, max_radius) ==
    FloatLE(radius, Num(0)) \/ FloatGT(radius, Num(max_radius))

\* float(request.query[..]) of ra, dec, radius_arcsec in this order: the
\* first missing key is a KeyError, the first text that is no float a
\* ValueError.
ParseRaDecRadius(req) ==
    LET ps == <<req.ra, req.dec, req.radius_arcsec>>
        bad(i) == ~ps[i].present \/ ~PyFloat(ps[i].s).ok
    IN  IF \E i \in 1..3 : bad(i)
        THEN LET i == CHOOSE k \in 1..3 : bad(k) /\ \A j \in 1..(k - 1) : ~bad(j)
             IN  [ok |-> FALSE, exc |-> IF ps[i].present THEN "ValueError" ELSE "KeyError",
                  ra |-> NaN, dec |-> NaN, radius |-> NaN]
        ELSE [ok |-> TRUE, exc |-> "none", ra |-> PyFloat(req.ra.s).val,
              dec |-> PyFloat(req.dec.s).val,
              radius |-> PyFloat(req.radius_arcsec.s).val]

\* ra_dec_radius_from_request (the same text in both util.py)
ra_dec_radius_from_request(req, max_radius) ==
    LET p == ParseRaDecRadius(req)
    IN  IF ~p.ok
        THEN IF p.exc = "KeyError" THEN Ends(HTTPBadRequest("radec_missing"))
             ELSE Ends(HTTPBadRequest("radec_not_float"))
        ELSE IF RadiusOutOfRange(p.radius, max_radius)
             THEN Ends(HTTPBadRequest("radius_range"))
             ELSE Value([ra |-> p.ra, dec |-> p.dec, radius |-> p.radius])

\* src/app.py circle_full_json, lines 210-219: the same checks answered with
\* Response objects.
RaDecRadiusV1Old(req) ==
    LET p == ParseRaDecRadius(req)
    IN  IF ~p.ok
        THEN IF p.exc = "KeyError" THEN Ends(TextResponse("radec_missing", 404))
             ELSE Ends(TextResponse("radec_not_float", 404))
        ELSE IF RadiusOutOfRange(p.radius, MAX_RADIUS)
             THEN Ends(TextResponse("radius_range", DefaultStatus))
             ELSE Value([ra |-> p.ra, dec |-> p.dec, radius |-> p.radius])

\* [int(x) for x in ...getall('fieldid', [])], then the same of not_fieldid:
\* TRUE iff every text converts.
FieldIdsAreInts(req) ==
    \A i \in 1..Len(req.fieldid \o req.not_fieldid) :
        PyInt(JStr((req.fieldid \o req.not_fieldid)[i])).ok

FieldIds(texts) == {PyInt(JStr(texts[i])).val : i \in 1..Len(texts)}

----------------------------------------------------------------------------
(* Release resolver: src/app/v3.py *)

\* A table name f'{dr}{suffix}'; NoTable is Python's None.
Table(dr, suffix) == [dr |-> dr, suffix |-> suffix]
NoTable == Table("None", "None")

\* A resolver that does not look the name up in the catalogue.
table_name_unchecked(dr) ==
    IF dr = "latest" THEN Value(LATEST_DR) ELSE Value(dr)

\* _table_name_from_dr
table_name_from_dr(dr) ==
    IF dr \notin AVAILABLE_DRS THEN Ends(HTTPNotFound("dr_not_supported"))
    ELSE IF dr = "latest" THEN Value(LATEST_DR)
    ELSE Value(dr)

observation_table(dr) ==
    LET r == table_name_from_dr(dr)
    IN  IF r.ok THEN Value(Table(r.val, "")) ELSE r

meta_table(dr) ==
    LET r == table_name_from_dr(dr)
    IN  IF r.ok THEN Value(Table(r.val, "_meta")) ELSE r

\* A resolver that takes every release to have a short-summary table.
meta_short_table_always(dr) ==
    LET r == table_name_from_dr(dr)
    IN  IF ~r.ok THEN r ELSE Value(Table(r.val, "_meta_short"))

meta_short_table(dr) ==
    LET r == table_name_from_dr(dr)
    IN  IF ~r.ok THEN r
        ELSE IF r.val \notin SHORT_META_DRS THEN Value(NoTable)
        ELSE Value(Table(r.val, "_meta_short"))

\* The tables of the generations that serve one release.
ObsTableOf(req) ==
    IF req.version = "v3" THEN observation_table(req.dr).val
    ELSE IF req.version \in {"v1", "v1old"} THEN Table("dr1", "_good_lc")
    ELSE Table("dr2", "")

MetaTableOf(req) ==
    IF req.version = "v3" THEN meta_table(req.dr).val
    ELSE IF req.version \in {"v1", "v1old"} THEN Table("dr1", "_meta")
    ELSE Table("dr2", "_meta")

----------------------------------------------------------------------------
(* Projections *)

\* A projection that lets every column through.
ProjectObsAll(obs, fields) == obs

\* {k: v for k, v in obs.items() if k in LC_FIELDS}
ProjectObs(obs, fields) == [k \in (DOMAIN obs) \cap fields |-> obs[k]]

\* obs.pop('oid') / meta.pop('oid')
PopOid(row) == [k \in (DOMAIN row) \ {"oid"} |-> row[k]]

ProjectLc(lc, fields) == [i \in 1..Len(lc) |-> ProjectObs(lc[i], fields)]

\* A lookup with a default: FILTERS.get(code, 'unknown')
FilterNameOrDefault(code) ==
    IF code \in DOMAIN FILTERS THEN Value(FILTERS[code]) ELSE Value("unknown")

\* FILTERS[code]: a code outside the table is a KeyError.
FilterName(code) ==
    IF code \in DOMAIN FILTERS THEN Value(FILTERS[code])
    ELSE Ends(Unhandled("KeyError"))

\* The keys every ClickHouse generation derives from the summary row.
MetaCommon(long, name) ==
    [nobs |-> long.nobs, ngoodobs |-> long.ngoodobs, filter |-> name,
     fieldid |-> long.fieldid, rcid |-> long.rcid,
     coord |-> [ra |-> long.ra, dec |-> long.dec],
     h3 |-> (10 :> long.h3index10)]

\* src/app/v3.py prepare_meta(long, short); short = <<>> is None.
prepare_meta(long, short) ==
    LET f == FilterName(long.filter)
    IN  IF ~f.ok THEN f
        ELSE LET record == MetaCommon(long, f.val) @@ [duration |-> long.durgood]
             IN  IF short # <<>>
                 THEN Value([ngoodobs_short |-> short.ngoodobs,
                             duration_short |-> short.durgood] @@ record)
                 ELSE Value(record)

\* The summary of an object as each generation builds it.
PrepareMetaOf(version, long, short) ==
    IF version = "v3" THEN prepare_meta(long, short)
    ELSE LET f == FilterName(long.filter)
         IN  IF ~f.ok THEN f
             ELSE IF version = "v2"
                  THEN Value(MetaCommon(long, f.val) @@ [duration |-> long.durgood])
                  ELSE Value(MetaCommon(long, f.val))

\* metas_short.get(oid, None)
ShortOf(ms, oid) == IF oid \in DOMAIN ms THEN ms[oid] ELSE <<>>

----------------------------------------------------------------------------
(* Requests *)

OidTexts == {<<"1">>, <<"2">>, <<"-", "1">>, <<"x">>}

OidLists == UNION {[1..n -> OidTexts] : n \in 1..MaxReqOids}

NoOid == [present |-> FALSE, list |-> <<>>]

OidParams == {NoOid} \cup {[present |-> TRUE, list |-> [i \in 1..Len(l) |-> JStr(l[i])]] : l \in OidLists}

DrNames == {"dr2", "dr8", "latest", "dr9"}

\* The JSON body of a POST request.
NoBody == [kind |-> "none", items |-> <<>>]

NoRequest ==
    [version |-> "none", shape |-> "none", method |-> "GET", dr |-> "none",
     oid |-> NoOid, body |-> NoBody, ra |-> Absent, dec |-> Absent, radius_arcsec |-> Absent,
     fieldid |-> <<>>, not_fieldid |-> <<>>, filter |-> <<>>, not_filter |-> <<>>]

OidRequest(version, dr, oid) ==
    [NoRequest EXCEPT !.version = version, !.shape = "oid", !.dr = dr, !.oid = oid]

OidRequests ==
    {OidRequest(v, "none", o) : v \in Versions \ {"v3"}, o \in OidParams}
    \cup {OidRequest("v3", dr, o) : dr \in DrNames, o \in OidParams}

RaTexts == {Param(<<"0">>), Param(<<"x">>), Absent}

DecTexts == {Param(<<"0">>), Absent}

RadiusTexts ==
    {Absent, Param(<<"x">>), Param(<<"n", "a", "n">>), Param(<<"-", "1">>),
     Param(<<"0">>), Param(<<"1">>), Param(<<"6", "0">>), Param(<<"6", "1">>)}

FieldIdTexts == {<<>>, <<<<"1">>>>, <<<<"x">>>>}

CircleRequest(version, dr, ra, dec, radius, fieldid, not_fieldid) ==
    [NoRequest EXCEPT !.version = version, !.shape = "circle", !.dr = dr,
                      !.ra = ra, !.dec = dec, !.radius_arcsec = radius,
                      !.fieldid = fieldid, !.not_fieldid = not_fieldid]

CircleRequests ==
    {CircleRequest("v2", "none", ra, dec, r, <<>>, <<>>) :
        ra \in RaTexts, dec \in DecTexts, r \in RadiusTexts}
    \cup {CircleRequest("v3", dr, ra, dec, r, <<>>, <<>>) :
        dr \in DrNames, ra \in RaTexts, dec \in DecTexts, r \in RadiusTexts}
    \cup {CircleRequest(v, "none", ra, Param(<<"0">>), r, f, nf) :
        v \in {"v1", "v1old"}, ra \in RaTexts, r \in RadiusTexts,
        f \in FieldIdTexts, nf \in FieldIdTexts}

----------------------------------------------------------------------------
(* The parts exercised on their own, at rest *)

NoPoint == [ra |-> 0, dec |-> 0, radius |-> 0]

NoDecoded == [ok |-> FALSE, exc |-> "none", ra |-> NaN, dec |-> NaN, radius |-> NaN]

NoCodec == [stage |-> "off", kind |-> "none", value |-> NoPoint, wire |-> <<>>,
            back |-> NoDecoded]

NoArgs == [circle |-> NoPoint, filters |-> <<>>, not_filters |-> <<>>,
           fieldids |-> <<>>, not_fieldids |-> <<>>]

NoBuilder == [stage |-> "off", args |-> NoArgs, where_parts |-> <<>>, values |-> <<>>]

NoStartup == [stage |-> "off", wait_for |-> 0, interval |-> 0, now |-> 0, t_start |-> 0,
              e |-> FALSE, tries |-> 0, probed |-> FALSE, ch_client |-> FALSE,
              served |-> FALSE, exc |-> "none"]

NoPool == [size |-> 0, free |-> 0, task |-> <<>>]

NoSite == [db |-> <<>>, task |-> <<>>, data |-> <<>>]

AsideOff ==
    /\ codec = NoCodec
    /\ builder = NoBuilder
    /\ startup = NoStartup
    /\ pool = NoPool
    /\ site = NoSite

----------------------------------------------------------------------------
(* State *)

Init ==
    /\ request = NoRequest
    /\ pc = "idle"
    /\ oids = <<>>
    /\ lcs = <<>>
    /\ metas = EmptyMap
    /\ metas_short = EmptyMap
    /\ todo = <<>>
    /\ cur = 0
    /\ data = EmptyMap
    /\ queries = <<>>
    /\ fault = FALSE
    /\ response = NoResponse
    /\ AsideOff

\* A backend call: the table read, and whether its IN list is empty.
Query(table, emptyin) == [table |-> table, emptyin |-> emptyin, oidset |-> {}]

\* A call of get_meta_for_oids with the identifier set it is given.
QueryFor(table, oidset) == [table |-> table, emptyin |-> oidset = {}, oidset |-> oidset]

\* The request ends with response r.
Finish(r) ==
    /\ pc' = "done"
    /\ response' = r

SeqToSet(q) == {q[i] : i \in 1..Len(q)}

----------------------------------------------------------------------------
(* By identifier, ClickHouse: src/app/v2.py, src/app/app/v2.py, src/app/v3.py *)

\* for oid, meta in metas.items(): the loop reaches its next await, or the
\* end of the handler.
ChLoop(td, d) ==
    /\ data' = d
    /\ IF td = <<>>
       THEN /\ Finish(JsonResponse(d))
            /\ UNCHANGED <<cur, todo, queries>>
       ELSE /\ cur' = Head(td)
            /\ todo' = Tail(td)
            /\ queries' = Append(queries, Query(ObsTableOf(request), FALSE))
            /\ pc' = "await_lc"
            /\ UNCHANGED response

\* src/app/v2.py oid_full_json, lines 80-88: the texts are checked with
\* int() and sent to the backend as they are.
OidFullJsonV2Old(req) ==
    IF ~req.oid.present THEN Ends(TextResponse("oid_missing", 404))
    ELSE IF \E i \in 1..Len(req.oid.list) : ~PyInt(req.oid.list[i]).ok
    THEN Ends(TextResponse("oid_not_int", 404))
    ELSE Value([i \in 1..Len(req.oid.list) |-> PyInt(req.oid.list[i]).val])

\* src/app/app/v2.py oid_full_json, line 103: oids_from_request is a
\* coroutine function and is called without await, so oids is a coroutine
\* object and map(str, oids) in get_meta_for_oids raises TypeError.
OidFullJsonV2(req) == Ends(Unhandled("TypeError"))

\* src/app/v3.py data_dr_oid_full_json, lines 171-173
OidFullJsonV3(req) ==
    LET r == oids_from_request(req)
    IN  IF ~r.ok THEN r
        ELSE IF ~meta_table(req.dr).ok THEN meta_table(req.dr)
        ELSE r

\* The by-identifier handlers of the ClickHouse generations up to their
\* first await.
OidFullJsonCh ==
    /\ pc = "idle"
    /\ \E req \in OidRequests :
        /\ req.version \in {"v2old", "v2", "v3"}
        /\ request' = req
        /\ LET r == CASE req.version = "v2old" -> OidFullJsonV2Old(req)
                      [] req.version = "v2" -> OidFullJsonV2(req)
                      [] req.version = "v3" -> OidFullJsonV3(req)
           IN  IF r.ok
               THEN /\ oids' = r.val
                    /\ queries' = <<Query(MetaTableOf(req), FALSE)>>
                    /\ pc' = "await_metas"
                    /\ UNCHANGED response
               ELSE /\ Finish(r.resp)
                    /\ UNCHANGED <<oids, queries>>
    /\ UNCHANGED <<lcs, metas, metas_short, todo, cur, data, fault>>
    /\ UNCHANGED aside

\* get_meta_for_oids filters on ngoodobs > 0 in v3 only.
GoodOnly(version) == version = "v3"

\* After the summaries: v3 asks for the short summaries of a release that
\* has them (lines 175-178), then the loop starts.
AfterMetas(td) ==
    IF request.version = "v3" /\ meta_short_table(request.dr).val # NoTable
    THEN /\ queries' = Append(queries, Query(meta_short_table(request.dr).val, FALSE))
         /\ pc' = "await_metas_short"
         /\ todo' = td
         /\ UNCHANGED <<cur, data, response>>
    ELSE ChLoop(td, data)

\* metas = await get_meta_for_oids(...) of a by-identifier request: the rows
\* come in the backend's order, which is the order of metas.items().
OidMetasFetched ==
    /\ pc = "await_metas"
    /\ request.shape = "oid"
    /\ \E m \in MetasAnswers(SeqToSet(oids), GoodOnly(request.version)) :
        \E order \in Perms(DOMAIN m) :
            /\ metas' = m
            /\ AfterMetas(order)
    /\ UNCHANGED <<request, oids, lcs, metas_short, fault>>
    /\ UNCHANGED aside

\* metas_short = await get_meta_for_oids(...) of a by-identifier request
OidMetasShortFetched ==
    /\ pc = "await_metas_short"
    /\ request.shape = "oid"
    /\ \E ms \in MetasShortAnswers(SeqToSet(oids)) :
        /\ metas_short' = ms
        /\ ChLoop(todo, data)
    /\ UNCHANGED <<request, oids, lcs, metas, fault>>
    /\ UNCHANGED aside

\* lc = await get_lc_for_oid_h3index10(...), then data[oid] = dict(meta=...,
\* lc=[...]) and the next turn of the loop.
OidLcFetched ==
    /\ pc = "await_lc"
    /\ \E lc \in LcAnswers(cur, metas[cur].h3index10, request.version) :
            LET pm == PrepareMetaOf(request.version, metas[cur], ShortOf(metas_short, cur))
                entry == [meta |-> pm.val,
                          lc |-> ProjectLc(lc, LC_FIELDS(request.version))]
            IN  IF pm.ok
                THEN ChLoop(todo, (cur :> entry) @@ data)
                ELSE /\ Finish(pm.resp)
                     /\ UNCHANGED <<cur, todo, data, queries>>
    /\ UNCHANGED <<request, oids, lcs, metas, metas_short, fault>>
    /\ UNCHANGED aside

----------------------------------------------------------------------------
(* By region, ClickHouse: src/app/app/v2.py, src/app/v3.py *)

\* The handler up to its first await: the parameters are parsed, v3 resolves
\* the observation table (get_lcs_in_circle, line 191).
CircleFullJsonChStart(req) ==
    LET p == ra_dec_radius_from_request(req, MAX_RADIUS)
    IN  IF ~p.ok THEN p
        ELSE IF req.version = "v3" /\ ~observation_table(req.dr).ok
        THEN observation_table(req.dr)
        ELSE p

CircleFullJsonCh ==
    /\ pc = "idle"
    /\ \E req \in CircleRequests :
        /\ req.version \in {"v2", "v3"}
        /\ request' = req
        /\ LET r == CircleFullJsonChStart(req)
           IN  IF r.ok
               THEN /\ queries' = <<Query(ObsTableOf(req), FALSE)>>
                    /\ pc' = "await_lcs"
                    /\ UNCHANGED response
               ELSE /\ Finish(r.resp)
                    /\ UNCHANGED queries
    /\ UNCHANGED <<oids, lcs, metas, metas_short, todo, cur, data, fault>>
    /\ UNCHANGED aside

\* oids = set(obs['oid'] for obs in lcs)
OidsOfLcs(rows) == {rows[i].oid : i \in 1..Len(rows)}

\* v3 returns {} for no rows (lines 211-212); v2 has no such return.
ReturnsEmptyEarly(version) == version = "v3"

\* lcs = await get_lcs_in_circle(...), then the summaries are asked for.
CircleLcsFetched ==
    /\ pc = "await_lcs"
    /\ LET c == ra_dec_radius_from_request(request, MAX_RADIUS).val
       IN  \E rows \in LcsInCircleAnswers(c.ra, c.radius, request.version) :
                /\ lcs' = rows
                /\ IF rows = <<>> /\ ReturnsEmptyEarly(request.version)
                   THEN /\ Finish(JsonResponse(EmptyMap))
                        /\ UNCHANGED queries
                   ELSE /\ queries' = Append(queries,
                                QueryFor(MetaTableOf(request), OidsOfLcs(rows)))
                        /\ pc' = "await_metas"
                        /\ UNCHANGED response
    /\ UNCHANGED <<request, oids, metas, metas_short, todo, cur, data, fault>>
    /\ UNCHANGED aside

\* A guard that only looks for summaries without observations.
OidsDifferOneWay(a, b) == ~(b \subseteq a)

\* The consistency guard: oids != set(metas)
OidsDiffer(a, b) == a # b

\* An assembly that groups adjacent rows: an identifier that comes back
\* after another one starts its object anew.
LastRun(rows, oid) ==
    {i \in 1..Len(rows) :
        /\ rows[i].oid = oid
        /\ \A j \in i..Len(rows) : rows[j].oid = oid =>
                \A k \in i..j : rows[k].oid = oid}

AssembleCircleAdjacent(rows, ms, mshort, version, d) ==
    LET seen == {rows[i].oid : i \in 1..Len(rows)}
        pm(oid) == PrepareMetaOf(version, ms[oid], ShortOf(mshort, oid))
    IN  IF \E oid \in seen : oid \notin DOMAIN ms THEN Ends(Unhandled("KeyError"))
        ELSE IF \E oid \in seen : ~pm(oid).ok
        THEN pm(CHOOSE oid \in seen : ~pm(oid).ok)
        ELSE Value([oid \in seen |->
                [meta |-> pm(oid).val,
                 lc |-> LET run == LastRun(rows, oid)
                            first == CHOOSE i \in run : \A j \in run : i <= j
                        IN  [n \in 1..Cardinality(run) |->
                                ProjectObs(rows[first + n - 1], LC_FIELDS(version))]]])

\* for obs in lcs: data.setdefault(oid, dict(meta=prepare_meta(...))), then
\* the projected row is appended to the object's lc.
RECURSIVE AssembleCircle(_, _, _, _, _)
AssembleCircle(rows, ms, mshort, version, d) ==
    IF rows = <<>> THEN Value(d)
    ELSE LET obs == Head(rows)
             oid == obs.oid
             pm == PrepareMetaOf(version, ms[oid], ShortOf(mshort, oid))
         IN  IF oid \notin DOMAIN ms THEN Ends(Unhandled("KeyError"))
             ELSE IF ~pm.ok THEN pm
             ELSE LET obj == IF oid \in DOMAIN d THEN d[oid]
                             ELSE [meta |-> pm.val, lc |-> <<>>]
                      lc == Append(obj.lc, ProjectObs(obs, LC_FIELDS(version)))
                  IN  AssembleCircle(Tail(rows), ms, mshort, version,
                                     (oid :> [obj EXCEPT !.lc = lc]) @@ d)

\* The loop of lines 225-231 and the response.
CircleRespond(ms, mshort) ==
    LET r == AssembleCircle(lcs, ms, mshort, request.version, EmptyMap)
    IN  /\ data' = (IF r.ok THEN r.val ELSE data)
        /\ Finish(IF r.ok THEN JsonResponse(r.val) ELSE r.resp)

\* metas = await get_meta_for_oids(...) of a by-region request, the guard,
\* then the short summaries (v3) or the loop.
CircleMetasFetched ==
    /\ pc = "await_metas"
    /\ request.shape = "circle"
    /\ ~queries[Len(queries)].emptyin
    /\ \E m \in MetasAnswers(queries[Len(queries)].oidset, GoodOnly(request.version)) :
            /\ metas' = m
            /\ IF OidsDiffer(OidsOfLcs(lcs), DOMAIN m)
               THEN /\ Finish(HTTPInternalServerError("different_oids"))
                    /\ UNCHANGED <<queries, data>>
               ELSE IF request.version = "v3" /\ meta_short_table(request.dr).val # NoTable
               THEN /\ queries' = Append(queries,
                            QueryFor(meta_short_table(request.dr).val, OidsOfLcs(lcs)))
                    /\ pc' = "await_metas_short"
                    /\ UNCHANGED <<data, response>>
               ELSE /\ CircleRespond(m, EmptyMap)
                    /\ UNCHANGED queries
    /\ UNCHANGED <<request, oids, lcs, metas_short, todo, cur, fault>>
    /\ UNCHANGED aside

\* WHERE oid IN (): the backend rejects the text as a syntax error, or (a
\* server that accepts an empty tuple) selects no row.
CircleMetasFetchedEmptyIn ==
    /\ pc = "await_metas"
    /\ request.shape = "circle"
    /\ queries[Len(queries)].emptyin
    /\ \/ /\ Finish(Unhandled("ChClientError"))
          /\ UNCHANGED <<metas, data>>
       \/ /\ metas' = EmptyMap
          /\ CircleRespond(EmptyMap, EmptyMap)
    /\ UNCHANGED <<request, oids, lcs, metas_short, todo, cur, queries, fault>>
    /\ UNCHANGED aside

\* metas_short = await get_meta_for_oids(...) of a by-region request
CircleMetasShortFetched ==
    /\ pc = "await_metas_short"
    /\ request.shape = "circle"
    /\ \E ms \in MetasShortAnswers(queries[Len(queries)].oidset) :
        /\ metas_short' = ms
        /\ CircleRespond(metas, ms)
    /\ UNCHANGED <<request, oids, lcs, metas, todo, cur, queries, fault>>
    /\ UNCHANGED aside

----------------------------------------------------------------------------
(* Postgres: src/app.py, src/app/app/v1.py *)

\* for oid in oids: the loop reaches its next await (get_meta_for_oid), or
\* the end of the handler.  src/app.py converts each text at the top of its
\* turn (lines 195-198); elsewhere the identifiers are integers already.
\* A loop that answers with what it has assembled so far.
OidNotIntPartial(d) == JsonResponse(d)

\* src/app.py lines 197-198: except ValueError: return Response(status=404)
OidNotInt(d) == TextResponse("oid_not_int", 404)

PgLoop(req, td, d) ==
    /\ data' = d
    /\ IF td = <<>>
       THEN /\ Finish(JsonResponse(d))
            /\ UNCHANGED <<cur, todo, queries>>
       ELSE IF ~PyInt(Head(td)).ok
       THEN /\ Finish(OidNotInt(d))
            /\ UNCHANGED <<cur, todo, queries>>
       ELSE /\ cur' = PyInt(Head(td)).val
            /\ todo' = Tail(td)
            /\ queries' = Append(queries, Query(MetaTableOf(req), FALSE))
            /\ pc' = "await_meta"
            /\ UNCHANGED response

Boxed(ints) == [i \in 1..Len(ints) |-> JNum(ints[i])]

\* The identifiers the loop of oid_full_json runs over.
OidFullJsonPgStart(req) ==
    IF req.version = "v1"
    THEN LET r == oids_from_request_async(req)
         IN  IF r.ok THEN Value(Boxed(r.val)) ELSE r
    ELSE IF ~req.oid.present THEN Ends(TextResponse("oid_missing", 404))
    ELSE Value(req.oid.list)

OidFullJsonPg ==
    /\ pc = "idle"
    /\ \E req \in OidRequests :
        /\ req.version \in {"v1", "v1old"}
        /\ request' = req
        /\ LET r == OidFullJsonPgStart(req)
           IN  IF r.ok
               THEN PgLoop(req, r.val, EmptyMap)
               ELSE /\ Finish(r.resp)
                    /\ UNCHANGED <<cur, todo, data, queries>>
    /\ UNCHANGED <<oids, lcs, metas, metas_short, fault>>
    /\ UNCHANGED aside

\* circle_oids / circle_full_json up to the query for the identifiers.
CircleFullJsonPgStart(req) ==
    LET p == IF req.version = "v1" THEN ra_dec_radius_from_request(req, MAX_RADIUS)
             ELSE RaDecRadiusV1Old(req)
    IN  IF ~p.ok THEN p
        ELSE IF ~FieldIdsAreInts(req)
        THEN IF req.version = "v1" THEN Ends(HTTPBadRequest("fieldid_not_int"))
             ELSE Ends(TextResponse("fieldid_not_int", 404))
        ELSE p

\* A handler that sends its query before it looks at the parameters.
CircleFullJsonPgQueryFirst ==
    /\ pc = "idle"
    /\ \E req \in CircleRequests :
        /\ req.version \in {"v1", "v1old"}
        /\ request' = req
        /\ queries' = <<Query(MetaTableOf(req), FALSE)>>
        /\ LET r == CircleFullJsonPgStart(req)
           IN  IF r.ok
               THEN /\ pc' = "await_circle_oids"
                    /\ UNCHANGED response
               ELSE Finish(r.resp)
    /\ UNCHANGED <<oids, lcs, metas, metas_short, todo, cur, data, fault>>
    /\ UNCHANGED aside

CircleFullJsonPg ==
    /\ pc = "idle"
    /\ \E req \in CircleRequests :
        /\ req.version \in {"v1", "v1old"}
        /\ request' = req
        /\ LET r == CircleFullJsonPgStart(req)
           IN  IF r.ok
               THEN /\ queries' = <<Query(MetaTableOf(req), FALSE)>>
                    /\ pc' = "await_circle_oids"
                    /\ UNCHANGED response
               ELSE /\ Finish(r.resp)
                    /\ UNCHANGED queries
    /\ UNCHANGED <<oids, lcs, metas, metas_short, todo, cur, data, fault>>
    /\ UNCHANGED aside

\* The optional predicates of the WHERE clause on a row of dr1_meta.
WhereOptional(row, req) ==
    /\ req.filter # <<>> => row.filter \in SeqToSet(req.filter)
    /\ req.not_filter # <<>> => row.filter \notin SeqToSet(req.not_filter)
    /\ req.fieldid # <<>> => row.fieldid \in FieldIds(req.fieldid)
    /\ req.not_fieldid # <<>> => row.fieldid \notin FieldIds(req.not_fieldid)

\* SELECT oid FROM dr1_meta WHERE coord @ circle AND ... ORDER BY oid
SelectCircleOids(T, c, req) ==
    IF c.ra.nan \/ c.radius.nan THEN {}
    ELSE {o \in DOMAIN T : /\ Abs(T[o].ra - c.ra.v) <= c.radius.v
                           /\ WhereOptional(T[o], req)}

Ascending(S) == CHOOSE f \in Perms(S) : \A i, j \in DOMAIN f : i < j => f[i] < f[j]

\* oids = await con.fetch(...), then the loop over them starts.
PgCircleOidsFetched ==
    /\ pc = "await_circle_oids"
    /\ LET c == CircleFullJsonPgStart(request).val
       IN  \E found \in {SelectCircleOids(T, c, request) : T \in MetaTables} :
            /\ oids' = Ascending(found)
            /\ PgLoop(request, Boxed(oids'), EmptyMap)
    /\ UNCHANGED <<request, lcs, metas, metas_short, fault>>
    /\ UNCHANGED aside

\* meta = await get_meta_for_oid(con, oid): by identifier a missing row
\* skips the identifier, by region it fails the assertion of line 244.
PgMetaFetched ==
    /\ pc = "await_meta"
    /\ \E found \in {SelectMetaForOid(T, I, cur) : T \in MetaTables, I \in InfoTables} :
            IF found = {}
            THEN /\ IF request.shape = "oid"
                    THEN PgLoop(request, todo, data)
                    ELSE /\ Finish(Unhandled("AssertionError"))
                         /\ UNCHANGED <<cur, todo, data, queries>>
                 /\ UNCHANGED metas
            ELSE /\ metas' = (cur :> (CHOOSE row \in found : TRUE))
                 /\ queries' = Append(queries, Query(ObsTableOf(request), FALSE))
                 /\ pc' = "await_pg_lc"
                 /\ UNCHANGED <<cur, todo, data, response>>
    /\ UNCHANGED <<request, oids, lcs, metas_short, fault>>
    /\ UNCHANGED aside

\* lc = await get_lc_for_oid(con, oid), then data[oid] = dict(meta=meta,
\* lc=lc) and the next turn of the loop.
PgLcFetched ==
    /\ pc = "await_pg_lc"
    /\ \E lc \in UNION {SelectLcForOid(T, cur) : T \in ObsTables} :
            LET entry == [meta |-> PopOid(metas[cur]),
                          lc |-> [i \in 1..Len(lc) |-> PopOid(lc[i])]]
            IN  PgLoop(request, todo, (cur :> entry) @@ data)
    /\ UNCHANGED <<request, oids, lcs, metas, metas_short, fault>>
    /\ UNCHANGED aside

\* A backend call raises (the connection drops, the server answers with an
\* error): nothing in the handlers catches it.
BackendRaises ==
    /\ pc \in {"await_metas", "await_metas_short", "await_lc", "await_lcs",
               "await_circle_oids", "await_meta", "await_pg_lc"}
    /\ fault' = TRUE
    /\ Finish(Unhandled("BackendError"))
    /\ UNCHANGED <<request, oids, lcs, metas, metas_short, todo, cur, data, queries>>
    /\ UNCHANGED aside

Next ==
    \/ OidFullJsonCh
    \/ OidMetasFetched
    \/ OidMetasShortFetched
    \/ OidLcFetched
    \/ CircleFullJsonCh
    \/ CircleLcsFetched
    \/ CircleMetasFetched
    \/ CircleMetasFetchedEmptyIn
    \/ CircleMetasShortFetched
    \/ OidFullJsonPg
    \/ CircleFullJsonPg
    \/ PgCircleOidsFetched
    \/ PgMetaFetched
    \/ PgLcFetched
    \/ BackendRaises

Spec == Init /\ [][Next]_vars

----------------------------------------------------------------------------
(* The identifiers of a request, on their own *)

\* The records of a POST body: a dict with an "oid" value, a dict without
\* the key, a value that is no dict.
PostValues == {JStr(<<"1">>), JStr(<<"-", "1">>), JStr(<<"x">>), JNum(1), JNull}

PostRecordsOf ==
    {[kind |-> "dict", haskey |-> TRUE, value |-> v] : v \in PostValues}
    \cup {[kind |-> "dict", haskey |-> FALSE, value |-> JNull],
          [kind |-> "str", haskey |-> FALSE, value |-> JNull]}

\* The bodies: no JSON, a JSON value that is no list, a list of records.
PostBodies ==
    {[kind |-> "notjson", items |-> <<>>], [kind |-> "dict", items |-> <<>>]}
    \cup {[kind |-> "list", items |-> l] :
            l \in UNION {[1..n -> PostRecordsOf] : n \in 0..MaxReqOids}}

ParseRequest(version, method, oid, body) ==
    [NoRequest EXCEPT !.version = version, !.shape = "parse", !.method = method,
                      !.oid = oid, !.body = body]

\* src/app/util.py reads the query string whatever the method is;
\* src/app/app/util.py reads the query string of a GET and the body of a POST.
ParseRequests ==
    {ParseRequest(v, "GET", o, NoBody) : v \in {"v1", "v3"}, o \in OidParams}
    \cup {ParseRequest("v1", "POST", NoOid, b) : b \in PostBodies}
    \cup {ParseRequest("v1", "PUT", NoOid, NoBody)}

InitOids ==
    /\ request \in ParseRequests
    /\ pc = "idle"
    /\ oids = <<>>
    /\ lcs = <<>>
    /\ metas = EmptyMap
    /\ metas_short = EmptyMap
    /\ todo = <<>>
    /\ cur = 0
    /\ data = EmptyMap
    /\ queries = <<>>
    /\ fault = FALSE
    /\ response = NoResponse
    /\ AsideOff

\* oids = oids_from_request(request): the handler goes on to the backend
\* with the integers, or the request ends.
OidsFromRequest ==
    /\ pc = "idle"
    /\ LET r == IF request.version = "v3" THEN oids_from_request(request)
                ELSE oids_from_request_async(request)
       IN  IF r.ok
           THEN /\ oids' = r.val
                /\ pc' = "parsed"
                /\ UNCHANGED response
           ELSE /\ Finish(r.resp)
                /\ UNCHANGED oids
    /\ UNCHANGED <<request, lcs, metas, metas_short, todo, cur, data, queries, fault>>
    /\ UNCHANGED aside

NextOids == OidsFromRequest

SpecOids == InitOids /\ [][NextOids]_vars

----------------------------------------------------------------------------
(* The spoint / scircle codec: src/app/app/v1.py lines 30-74 (the same text
   in src/app.py lines 16-60) *)

\* A float of the codec is an integer on a grid that stands for the spacing
\* of the doubles around the value.  A product is rounded to the nearest
\* point of the grid of its own size: radians lie on a grid 64 times finer
\* than degrees (pi / 180 is about 2^-6), degrees on a grid 4096 times finer
\* than arcseconds (1 / 3600 is about 2^-12).  pi is 355 / 113.
Round(num, den) == (2 * num + den) \div (2 * den)

\* math.radians(x): x * (pi / 180), on the radian grid
radians(x) == Round(x * 1136, 1017)

\* math.degrees(x): x * (180 / pi), on the degree grid
degrees(x) == Round(x * 1017, 1136)

\* self.radius / 3600.
Div3600(x) == Round(x * 256, 225)

\* ... * 3600.
Mul3600(x) == Round(x * 225, 256)

DigitChar(d) ==
    CASE d = 0 -> "0" [] d = 1 -> "1" [] d = 2 -> "2" [] d = 3 -> "3"
      [] d = 4 -> "4" [] d = 5 -> "5" [] d = 6 -> "6" [] d = 7 -> "7"
      [] d = 8 -> "8" [] d = 9 -> "9"

RECURSIVE NatText(_)
NatText(n) == IF n < 10 THEN <<DigitChar(n)>> ELSE Append(NatText(n \div 10), DigitChar(n % 10))

\* f'{x}' of a float: the text float() reads back as x.
Repr(n) == IF n < 0 THEN <<"-">> \o NatText(0 - n) ELSE NatText(n)

RECURSIVE LStrip(_, _)
LStrip(s, chars) ==
    IF s # <<>> /\ Head(s) \in chars THEN LStrip(Tail(s), chars) ELSE s

RECURSIVE RStrip(_, _)
RStrip(s, chars) ==
    IF s # <<>> /\ s[Len(s)] \in chars THEN RStrip(SubSeq(s, 1, Len(s) - 1), chars) ELSE s

\* s.strip(chars)
Strip(s, chars) == RStrip(LStrip(s, chars), chars)

\* The places of sep in s.
Places(s, sep) == {i \in 1..Len(s) : s[i] = sep}

\* s.split(sep): the pieces between the separators.
RECURSIVE Split(_, _)
Split(s, sep) ==
    IF Places(s, sep) = {} THEN <<s>>
    ELSE LET i == CHOOSE k \in Places(s, sep) : \A j \in Places(s, sep) : k <= j
         IN  <<SubSeq(s, 1, i - 1)>> \o Split(SubSeq(s, i + 1, Len(s)), sep)

\* A cut at the first separator, as s.split(sep, 1) makes it.
SplitFirst(s, sep) ==
    IF Places(s, sep) = {} THEN <<s>>
    ELSE LET i == CHOOSE k \in Places(s, sep) : \A j \in Places(s, sep) : k <= j
         IN  <<SubSeq(s, 1, i - 1), SubSeq(s, i + 1, Len(s))>>

\* s.rsplit(sep, maxsplit=1): cut at the last separator.
RSplit1(s, sep) ==
    IF Places(s, sep) = {} THEN <<s>>
    ELSE LET i == CHOOSE k \in Places(s, sep) : \A j \in Places(s, sep) : k >= j
         IN  <<SubSeq(s, 1, i - 1), SubSeq(s, i + 1, Len(s))>>

\* float(x) of a piece of text: blanks around the number are ignored.
FloatOfText(s) == PyFloat(Strip(s, {" "}))

\* m.degrees(float(x))
DegreesOfText(s) ==
    LET f == FloatOfText(s)
    IN  IF ~f.ok THEN f
        ELSE IF f.val.nan THEN f
        ELSE [f EXCEPT !.val = Num(degrees(f.val.v))]

Decoded(ra, dec, radius) ==
    [ok |-> TRUE, exc |-> "none", ra |-> ra, dec |-> dec, radius |-> radius]

DecodeError(exc) == [NoDecoded EXCEPT !.exc = exc]

\* SPoint.to_sql
SPoint_to_sql(p) ==
    <<"(">> \o Repr(radians(p.ra)) \o <<",", " ">> \o Repr(radians(p.dec)) \o <<")">>

\* SPoint.from_sql: unpacking anything but two pieces is a ValueError.
SPoint_from_sql(s) ==
    LET parts == Split(Strip(s, {"(", ")"}), ",")
    IN  IF Len(parts) # 2 THEN DecodeError("ValueError")
        ELSE LET ra == DegreesOfText(parts[1])
                 dec == DegreesOfText(parts[2])
             IN  IF ~ra.ok \/ ~dec.ok THEN DecodeError("ValueError")
                 ELSE Decoded(ra.val, dec.val, NaN)

\* SCircle.to_sql
SCircle_to_sql(c) ==
    <<"<">> \o SPoint_to_sql(c) \o <<",", " ">> \o Repr(radians(Div3600(c.radius)))
            \o <<">">>

\* SCircle.from_sql
SCircle_from_sql(s) ==
    LET parts == RSplit1(Strip(s, {"<", ">"}), ",")
    IN  IF Len(parts) # 2 THEN DecodeError("ValueError")
        ELSE LET point == SPoint_from_sql(parts[1])
                 radius == DegreesOfText(parts[2])
             IN  IF ~point.ok THEN point
                 ELSE IF ~radius.ok THEN DecodeError("ValueError")
                 ELSE IF radius.val.nan THEN Decoded(point.ra, point.dec, NaN)
                 ELSE Decoded(point.ra, point.dec, Num(Mul3600(radius.val.v)))

\* Decimal degrees on the degree grid: ra in [0, 360], dec in [-90, 90] with
\* 8 grid points to the degree; radii in (0, 60] arcseconds, 8 to the
\* arcsecond.
RaValues == {0, 1, 7, 1440, 2879, 2880}

DecValues == {-720, -719, -1, 0, 3, 720}

RadiusValues == {1, 8, 479, 480}

CodecInputs ==
    {[stage |-> "made", kind |-> "point",
      value |-> [ra |-> ra, dec |-> dec, radius |-> 0],
      wire |-> <<>>, back |-> NoDecoded] : ra \in RaValues, dec \in DecValues}
    \cup {[stage |-> "made", kind |-> "circle",
           value |-> [ra |-> ra, dec |-> dec, radius |-> r],
           wire |-> <<>>, back |-> NoDecoded] :
                ra \in RaValues, dec \in DecValues, r \in RadiusValues}

InitCodec ==
    /\ request = NoRequest
    /\ pc = "idle"
    /\ oids = <<>>
    /\ lcs = <<>>
    /\ metas = EmptyMap
    /\ metas_short = EmptyMap
    /\ todo = <<>>
    /\ cur = 0
    /\ data = EmptyMap
    /\ queries = <<>>
    /\ fault = FALSE
    /\ response = NoResponse
    /\ codec \in CodecInputs
    /\ builder = NoBuilder
    /\ startup = NoStartup
    /\ pool = NoPool
    /\ site = NoSite

\* The encoder asyncpg calls for a query argument.
ToSql ==
    /\ codec.stage = "made"
    /\ codec' = [codec EXCEPT !.stage = "encoded",
                              !.wire = IF codec.kind = "point"
                                       THEN SPoint_to_sql(codec.value)
                                       ELSE SCircle_to_sql(codec.value)]
    /\ UNCHANGED besideCodec

\* The decoder asyncpg calls for a column of the result.
FromSql ==
    /\ codec.stage = "encoded"
    /\ codec' = [codec EXCEPT !.stage = "decoded",
                              !.back = IF codec.kind = "point"
                                       THEN SPoint_from_sql(codec.wire)
                                       ELSE SCircle_from_sql(codec.wire)]
    /\ UNCHANGED besideCodec

NextCodec ==
    \/ ToSql
    \/ FromSql

SpecCodec == InitCodec /\ [][NextCodec]_vars

\* Wire texts as a server or a proxy may send them: brackets missing,
\* unbalanced, repeated or of the wrong side; one, two or three components;
\* a component that is no number.
PointOpenings == {<<>>, <<"(">>, <<"(", "(">>, <<")">>}

PointBodies ==
    {<<"1", ",", " ", "2">>, <<"1">>, <<"1", ",", "2", ",", "3">>, <<"1", ",", "x">>, <<>>}

PointClosings == {<<>>, <<")">>, <<")", ")">>, <<"(">>}

PointWires == {o \o b \o c : o \in PointOpenings, b \in PointBodies, c \in PointClosings}

CircleOpenings == {<<>>, <<"<">>, <<"<", "<">>}

CirclePoints == {<<"(", "1", ",", " ", "2", ")">>, <<"1", ",", " ", "2">>, <<"(", "1", ")">>}

CircleRadii == {<<",", " ", "3">>, <<>>, <<",", " ", "x">>}

CircleClosings == {<<>>, <<">">>, <<">", ">">>}

CircleWires ==
    {o \o p \o r \o c :
        o \in CircleOpenings, p \in CirclePoints, r \in CircleRadii, c \in CircleClosings}

InitDecode ==
    /\ request = NoRequest
    /\ pc = "idle"
    /\ oids = <<>>
    /\ lcs = <<>>
    /\ metas = EmptyMap
    /\ metas_short = EmptyMap
    /\ todo = <<>>
    /\ cur = 0
    /\ data = EmptyMap
    /\ queries = <<>>
    /\ fault = FALSE
    /\ response = NoResponse
    /\ codec \in {[NoCodec EXCEPT !.stage = "encoded", !.kind = "point", !.wire = w] :
                        w \in PointWires}
                \cup {[NoCodec EXCEPT !.stage = "encoded", !.kind = "circle", !.wire = w] :
                        w \in CircleWires}
    /\ builder = NoBuilder
    /\ startup = NoStartup
    /\ pool = NoPool
    /\ site = NoSite

NextDecode == FromSql

\* The decoder on texts that did not come from the encoder.
SpecDecode == InitDecode /\ [][NextDecode]_vars

----------------------------------------------------------------------------
(* The WHERE clause of the region query: src/app/app/v1.py 204-219,        *)
(* src/app.py 229-244                                                      *)

\* A query argument: the circle, a list of passband names, a list of field ids.
CircleArg(c) == [type |-> "SCircle", circle |-> c, names |-> <<>>, ints |-> <<>>]

NamesArg(l) == [type |-> "list", circle |-> NoPoint, names |-> l, ints |-> <<>>]

IntsArg(l) == [type |-> "list", circle |-> NoPoint, names |-> <<>>, ints |-> l]

\* bool(value): an instance of a dataclass is true, a list is true unless empty.
Truthy(value) == value.type = "SCircle" \/ value.names # <<>> \/ value.ints # <<>>

CirclePart == "coord @ ${i}::scircle"

FilterPart == "filter = ANY(${i}::FILTER[])"

NotFilterPart == "NOT filter = ANY(${i}::FILTER[])"

FieldidPart == "fieldid = ANY(${i}::int[])"

NotFieldidPart == "NOT fieldid = ANY(${i}::int[])"

\* where = [(circle, ...), (filters, ...), (not_filters, ...), ...]
Where(args) ==
    << [value |-> CircleArg(args.circle), part |-> CirclePart],
       [value |-> NamesArg(args.filters), part |-> FilterPart],
       [value |-> NamesArg(args.not_filters), part |-> NotFilterPart],
       [value |-> IntsArg(args.fieldids), part |-> FieldidPart],
       [value |-> IntsArg(args.not_fieldids), part |-> NotFieldidPart] >>

\* part.format(i=i): the template with its ${i} replaced by $ and the number.
Format(part, i) == [template |-> part, placeholder |-> i]

\* The loop with the counter incremented for every entry of the list.
RECURSIVE WhereLoopCountingAll(_, _, _, _)
WhereLoopCountingAll(where, i, where_parts, values) ==
    IF where = <<>> THEN [where_parts |-> where_parts, values |-> values]
    ELSE LET value == Head(where).value
             part == Head(where).part
         IN  IF Truthy(value)
             THEN WhereLoopCountingAll(Tail(where), i + 1,
                                       Append(where_parts, Format(part, i + 1)),
                                       Append(values, value))
             ELSE WhereLoopCountingAll(Tail(where), i + 1, where_parts, values)

\* for value, part in where: if value: i += 1; where_parts.append(...); values.append(value)
RECURSIVE WhereLoop(_, _, _, _)
WhereLoop(where, i, where_parts, values) ==
    IF where = <<>> THEN [where_parts |-> where_parts, values |-> values]
    ELSE LET value == Head(where).value
             part == Head(where).part
         IN  IF Truthy(value)
             THEN WhereLoop(Tail(where), i + 1,
                            Append(where_parts, Format(part, i + 1)),
                            Append(values, value))
             ELSE WhereLoop(Tail(where), i, where_parts, values)

FilterLists == {<<>>, <<"zg">>, <<"zr", "zi">>}

NotFilterLists == {<<>>, <<"zi">>, <<"zg", "zr">>}

FieldidLists == {<<>>, <<1>>, <<2, 3>>}

NotFieldidLists == {<<>>, <<4>>, <<5, 6>>}

BuilderCircles == {[ra |-> 0, dec |-> 0, radius |-> 1], [ra |-> 7, dec |-> -1, radius |-> 60]}

BuilderInputs ==
    {[stage |-> "args",
      args |-> [circle |-> c, filters |-> f, not_filters |-> nf,
                fieldids |-> fi, not_fieldids |-> nfi],
      where_parts |-> <<>>, values |-> <<>>] :
        c \in BuilderCircles, f \in FilterLists, nf \in NotFilterLists,
        fi \in FieldidLists, nfi \in NotFieldidLists}

InitBuilder ==
    /\ request = NoRequest
    /\ pc = "idle"
    /\ oids = <<>>
    /\ lcs = <<>>
    /\ metas = EmptyMap
    /\ metas_short = EmptyMap
    /\ todo = <<>>
    /\ cur = 0
    /\ data = EmptyMap
    /\ queries = <<>>
    /\ fault = FALSE
    /\ response = NoResponse
    /\ codec = NoCodec
    /\ builder \in BuilderInputs
    /\ startup = NoStartup
    /\ pool = NoPool
    /\ site = NoSite

\* The predicates and the arguments of the query, from the parsed parameters.
BuildWhere ==
    /\ builder.stage = "args"
    /\ LET r == WhereLoop(Where(builder.args), 0, <<>>, <<>>)
       IN  builder' = [builder EXCEPT !.stage = "built",
                                      !.where_parts = r.where_parts,
                                      !.values = r.values]
    /\ UNCHANGED besideBuilder

NextBuilder == BuildWhere

SpecBuilder == InitBuilder /\ [][NextBuilder]_vars

----------------------------------------------------------------------------
(* Startup: try_for_a_while of src/app/util.py 39-51 (the same text in     *)
(* src/app/app/util.py 68-80) as app_on_startup of src/app/v3.py 234-247    *)
(* and src/app/app/v2.py 148-161 call it.  Time is in seconds; a call that  *)
(* takes less than a second takes none.  Every caller passes interval.     *)

\* src/app/v3.py: wait_for=900, interval=1
WaitForV3 == 900

IntervalV3 == 1

\* src/app/app/v2.py: wait_for=1, interval=1
WaitForV2 == 1

IntervalV2 == 1

\* Longest a probe or the timer of a sleep takes beyond its due time.
MaxDelay == 1

\* The most tries that are counted.
MaxTries == 2

\* The configured pairs, a deadline that is over at once, a short one.
StartupConfigs ==
    {[wait_for |-> WaitForV3, interval |-> IntervalV3],
     [wait_for |-> WaitForV2, interval |-> IntervalV2],
     [wait_for |-> 0, interval |-> 1],
     [wait_for |-> 3, interval |-> 1]}

InitStartup ==
    /\ request = NoRequest
    /\ pc = "idle"
    /\ oids = <<>>
    /\ lcs = <<>>
    /\ metas = EmptyMap
    /\ metas_short = EmptyMap
    /\ todo = <<>>
    /\ cur = 0
    /\ data = EmptyMap
    /\ queries = <<>>
    /\ fault = FALSE
    /\ response = NoResponse
    /\ codec = NoCodec
    /\ builder = NoBuilder
    /\ \E c \in StartupConfigs :
            startup = [NoStartup EXCEPT !.stage = "starting",
                                        !.wait_for = c.wait_for,
                                        !.interval = c.interval]
    /\ pool = NoPool
    /\ site = NoSite

\* raise RuntimeError(...) from e: the name e is unbound unless an except
\* clause is being executed (Python deletes it at the end of the clause, and
\* it was never bound if the loop was not entered), so evaluating it raises
\* UnboundLocalError in place of the RuntimeError.
RaiseTimedOut(e) == IF e THEN "RuntimeError" ELSE "UnboundLocalError"

\* while time.monotonic() - t_start < wait_for: the next probe is awaited,
\* or the loop is left and the raise statement executed.
WhileTest(s) ==
    IF s.now - s.t_start < s.wait_for
    THEN [s EXCEPT !.stage = "probing"]
    ELSE [s EXCEPT !.stage = "failed", !.exc = RaiseTimedOut(s.e)]

Counted(n) == IF n < MaxTries THEN n + 1 ELSE MaxTries

\* app_on_startup up to the first await of try_for_a_while.
TryForAWhile ==
    /\ startup.stage = "starting"
    /\ startup' = WhileTest([startup EXCEPT !.t_start = startup.now])
    /\ UNCHANGED besideStartup

\* await client.fetch('SELECT 1') returns: ch_client returns the client,
\* try_for_a_while returns it, app['ch_client'] is set and startup is over.
ProbeSucceeds ==
    /\ startup.stage = "probing"
    /\ \E d \in 0..MaxDelay :
        startup' = [startup EXCEPT !.stage = "up",
                                   !.now = startup.now + d,
                                   !.tries = Counted(startup.tries),
                                   !.probed = TRUE,
                                   !.ch_client = TRUE]
    /\ UNCHANGED besideStartup

\* The probe raises ClientConnectorError: except exception as e, and the
\* sleep is awaited.
ProbeFailsToConnect ==
    /\ startup.stage = "probing"
    /\ \E d \in 0..MaxDelay :
        startup' = [startup EXCEPT !.stage = "sleeping",
                                   !.now = startup.now + d,
                                   !.tries = Counted(startup.tries),
                                   !.e = TRUE]
    /\ UNCHANGED besideStartup

\* A loop whose except clause takes every exception: the fault is kept and
\* the sleep is awaited.
ProbeFailsOtherwiseCaught ==
    /\ startup.stage = "probing"
    /\ \E d \in 0..MaxDelay :
        startup' = [startup EXCEPT !.stage = "sleeping",
                                   !.now = startup.now + d,
                                   !.tries = Counted(startup.tries),
                                   !.e = TRUE,
                                   !.exc = "ChClientError"]
    /\ UNCHANGED besideStartup

\* The probe raises something else (ChClientError of a server that answers
\* with an error): no except clause matches, app_on_startup ends with it.
ProbeFailsOtherwise ==
    /\ startup.stage = "probing"
    /\ \E d \in 0..MaxDelay :
        startup' = [startup EXCEPT !.stage = "failed",
                                   !.now = startup.now + d,
                                   !.tries = Counted(startup.tries),
                                   !.exc = "ChClientError"]
    /\ UNCHANGED besideStartup

\* await asyncio.sleep(interval) returns, the except clause ends (del e),
\* the loop condition is evaluated.
SleepOver ==
    /\ startup.stage = "sleeping"
    /\ \E d \in 0..MaxDelay :
        startup' = WhileTest([startup EXCEPT !.now = startup.now + startup.interval + d,
                                             !.e = FALSE])
    /\ UNCHANGED besideStartup

\* The application serves a request: only once on_startup has returned.
ServeRequest ==
    /\ startup.stage = "up"
    /\ ~startup.served
    /\ startup' = [startup EXCEPT !.served = TRUE]
    /\ UNCHANGED besideStartup

NextStartup ==
    \/ TryForAWhile
    \/ ProbeSucceeds
    \/ ProbeFailsToConnect
    \/ ProbeFailsOtherwise
    \/ SleepOver
    \/ ServeRequest

SpecStartup == InitStartup /\ [][NextStartup]_vars

----------------------------------------------------------------------------
(* The connection pool of src/app/app/v1.py: oid_full_json 179-190,        *)
(* circle_oids 221-234, circle_full_json 237-247.  `async with              *)
(* pool.acquire() as con` waits for a free connection on entry and gives    *)
(* it back on exit, also when the block is left by continue or by an        *)
(* exception.  Several requests run at once, each from await to await.      *)

MaxTasks == 2       \* requests in flight

MaxPoolSize == 1    \* connections of the pool

Tasks == 1..MaxTasks

NewTask(kind) ==
    [kind |-> kind, pc |-> "start", phase |-> "none", held |-> 0, todo |-> 0,
     response |-> "none"]

InitPool ==
    /\ request = NoRequest
    /\ pc = "idle"
    /\ oids = <<>>
    /\ lcs = <<>>
    /\ metas = EmptyMap
    /\ metas_short = EmptyMap
    /\ todo = <<>>
    /\ cur = 0
    /\ data = EmptyMap
    /\ queries = <<>>
    /\ fault = FALSE
    /\ response = NoResponse
    /\ codec = NoCodec
    /\ builder = NoBuilder
    /\ startup = NoStartup
    /\ \E size \in 1..MaxPoolSize, kinds \in [Tasks -> {"oid", "circle"}] :
            pool = [size |-> size, free |-> size,
                    task |-> [r \in Tasks |-> NewTask(kinds[r])]]
    /\ site = NoSite

\* The task of request r becomes t; the connections it took or gave back
\* leave or join the free ones.
Becomes(r, t) ==
    pool' = [pool EXCEPT !.free = @ + pool.task[r].held - t.held,
                         !.task[r] = t]

\* __aexit__ of `async with pool.acquire()`: the connection goes back.
Released(t) == [t EXCEPT !.held = 0]

Responds(t, resp) == [t EXCEPT !.pc = "done", !.response = resp]

\* An exit by exception that keeps the connection.
RaisedInsideHolding(t, exc) == Responds(t, exc)

\* An exception raised inside the block leaves it through __aexit__.
RaisedInside(t, exc) == Responds(Released(t), exc)

\* for oid in oids (oid_full_json): the next turn enters `async with
\* pool.acquire()`, or the loop is over and the mapping is returned.
ForOid(t) ==
    IF t.todo = 0 THEN Responds(t, "json")
    ELSE [t EXCEPT !.pc = "acquire", !.phase = "loop"]

\* for oid in oids (circle_full_json), inside the block: the next fetch,
\* or the block is left and the mapping is returned.
ForOidInside(t) ==
    IF t.todo = 0 THEN Responds(Released(t), "json")
    ELSE [t EXCEPT !.pc = "meta"]

\* The handler runs up to its first wait: the parameters are parsed
\* (HTTPBadRequest ends the request), oid_full_json starts its loop,
\* circle_oids enters `async with pool.acquire()`.
HandlerStarts ==
    \E r \in Tasks :
        /\ pool.task[r].pc = "start"
        /\ \/ Becomes(r, Responds(pool.task[r], "HTTPBadRequest"))
           \/ /\ pool.task[r].kind = "oid"
              /\ \E n \in 1..MaxReqOids :
                    Becomes(r, ForOid([pool.task[r] EXCEPT !.todo = n]))
           \/ /\ pool.task[r].kind = "circle"
              /\ Becomes(r, [pool.task[r] EXCEPT !.pc = "acquire", !.phase = "oids"])
        /\ UNCHANGED besidePool

\* pool.acquire() returns a connection: the first call inside the block is
\* awaited.
Acquire ==
    \E r \in Tasks :
        /\ pool.task[r].pc = "acquire"
        /\ pool.free > 0
        /\ LET t == [pool.task[r] EXCEPT !.held = @ + 1]
           IN  IF t.kind = "circle" /\ t.phase = "oids"
               THEN Becomes(r, [t EXCEPT !.pc = "circle_oids"])
               ELSE IF t.kind = "circle"
               THEN Becomes(r, ForOidInside(t))
               ELSE Becomes(r, [t EXCEPT !.pc = "meta"])
        /\ UNCHANGED besidePool

\* oids = await con.fetch(...) of circle_oids returns; the block is left,
\* circle_full_json enters its own `async with pool.acquire()`.
CircleOidsReturn ==
    \E r \in Tasks :
        /\ pool.task[r].pc = "circle_oids"
        /\ \E n \in 0..MaxReqOids :
              Becomes(r, [Released(pool.task[r]) EXCEPT !.pc = "acquire",
                                                        !.phase = "loop",
                                                        !.todo = n])
        /\ UNCHANGED besidePool

\* meta = await get_meta_for_oid(con, oid) returns: a row, and the
\* observations are fetched; None, and oid_full_json goes on with the next
\* identifier (continue leaves the block) while circle_full_json fails its
\* assertion.
MetaReturns ==
    \E r \in Tasks :
        /\ pool.task[r].pc = "meta"
        /\ \/ Becomes(r, [pool.task[r] EXCEPT !.pc = "lc"])
           \/ /\ pool.task[r].kind = "oid"
              /\ Becomes(r, ForOid(Released([pool.task[r] EXCEPT !.todo = @ - 1])))
           \/ /\ pool.task[r].kind = "circle"
              /\ Becomes(r, RaisedInside(pool.task[r], "AssertionError"))
        /\ UNCHANGED besidePool

\* lc = await get_lc_for_oid(con, oid) returns and the object is stored.
LcReturns ==
    \E r \in Tasks :
        /\ pool.task[r].pc = "lc"
        /\ LET t == [pool.task[r] EXCEPT !.todo = @ - 1]
           IN  IF t.kind = "oid" THEN Becomes(r, ForOid(Released(t)))
               ELSE Becomes(r, ForOidInside(t))
        /\ UNCHANGED besidePool

\* A call on the connection raises (the backend reports an error, the
\* connection is lost): nothing catches it inside the block.
CallRaises ==
    \E r \in Tasks :
        /\ pool.task[r].pc \in {"circle_oids", "meta", "lc"}
        /\ Becomes(r, RaisedInside(pool.task[r], "PostgresError"))
        /\ UNCHANGED besidePool

NextPool ==
    \/ HandlerStarts
    \/ Acquire
    \/ CircleOidsReturn
    \/ MetaReturns
    \/ LcReturns
    \/ CallRaises

SpecPool == InitPool /\ [][NextPool]_vars

\* The event loop runs whatever can run, and every call on a connection
\* returns or raises.
SpecPoolFair == SpecPool /\ WF_vars(NextPool)

----------------------------------------------------------------------------
(* Several requests at once: the handlers of src/app/v3.py 169-231, each    *)
(* with the locals of its own call, on a backend whose tables do not        *)
(* change.  A handler runs from one await to the next; between two awaits   *)
(* of one request the others may run.                                       *)

Concurrent == {1, 2}

\* The locals of one call of a handler.
Locals(req) ==
    [request |-> req, pc |-> "start", oids |-> <<>>, lcs |-> <<>>, metas |-> EmptyMap,
     metas_short |-> EmptyMap, todo |-> <<>>, cur |-> 0, response |-> NoResponse]

\* The mapping a call builds is held in one module-level name.
SlotOfModule(r) == 0

\* data = {} is a local of the call: each request has a mapping of its own.
Slot(r) == r

\* The tables of one release.
GoodContent ==
    [obs |-> {ObsRow(1, 0, 1, 0, 1), ObsRow(1, 0, 2, 0, 1), ObsRow(2, 0, 1, 0, 1)},
     meta |-> (1 :> MetaRow(1, 2, 1, 0)) @@ (2 :> MetaRow(2, 2, 2, 0)),
     short |-> (1 :> ShortRow(1, 1)) @@ (2 :> ShortRow(2, 1))]

SparseContent ==
    [obs |-> {ObsRow(1, 0, 1, 0, 1), ObsRow(2, 0, 1, 0, 1), ObsRow(2, 0, 2, 0, 1)},
     meta |-> (2 :> MetaRow(2, 2, 3, 0)),
     short |-> (2 :> ShortRow(2, 1))]

Databases == [{"dr2", "dr8"} -> {GoodContent, SparseContent}]

SiteRequests ==
    {OidRequest("v3", dr, [present |-> TRUE, list |-> l]) :
        dr \in {"dr2", "dr8"}, l \in {<<JStr(<<"1">>)>>, <<JStr(<<"1">>), JStr(<<"2">>)>>}}
    \cup {OidRequest("v3", "dr8", [present |-> TRUE, list |-> <<JStr(<<"x">>)>>])}
    \cup {CircleRequest("v3", dr, Param(<<"0">>), Param(<<"0">>), Param(<<"6", "0">>),
                        <<>>, <<>>) : dr \in {"dr2", "dr8"}}

InitSite ==
    /\ request = NoRequest
    /\ pc = "idle"
    /\ oids = <<>>
    /\ lcs = <<>>
    /\ metas = EmptyMap
    /\ metas_short = EmptyMap
    /\ todo = <<>>
    /\ cur = 0
    /\ data = EmptyMap
    /\ queries = <<>>
    /\ fault = FALSE
    /\ response = NoResponse
    /\ codec = NoCodec
    /\ builder = NoBuilder
    /\ startup = NoStartup
    /\ pool = NoPool
    /\ \E db \in Databases, reqs \in [Concurrent -> SiteRequests] :
            site = [db |-> db,
                    task |-> [r \in Concurrent |-> Locals(reqs[r])],
                    data |-> [k \in Concurrent \cup {0} |-> EmptyMap]]

\* The tables a request reads.
ContentOf(db, req) == db[table_name_from_dr(req.dr).val]

Goes(l, d) == [l |-> l, d |-> d]

Returns(l, resp, d) == Goes([l EXCEPT !.pc = "done", !.response = resp], d)

\* for oid, meta in metas.items(): the next fetch, or the response.
SiteLoop(l, td, d) ==
    IF td = <<>> THEN Returns(l, JsonResponse(d), d)
    ELSE Goes([l EXCEPT !.pc = "await_lc", !.cur = Head(td), !.todo = Tail(td)], d)

\* Lines 225-231: the loop of the by-region handler and its response.
SiteAssemble(l, ms, mshort, d) ==
    LET r == AssembleCircle(l.lcs, ms, mshort, "v3", EmptyMap)
    IN  IF r.ok THEN Returns(l, JsonResponse(r.val), r.val)
        ELSE Returns(l, r.resp, d)

\* One request from where it stands to its next await or its end: the
\* locals and the mapping it goes on with (more than one where the order of
\* an answer is not determined).
HandlerStep(l, d, db) ==
    LET req == l.request
        content == ContentOf(db, req)
        short == meta_short_table(req.dr).val # NoTable
    IN  CASE l.pc = "start" /\ req.shape = "oid" ->
                LET r == OidFullJsonV3(req)
                IN  IF ~r.ok THEN {Returns(l, r.resp, d)}
                    ELSE {Goes([l EXCEPT !.pc = "await_metas", !.oids = r.val], d)}
          [] l.pc = "start" /\ req.shape = "circle" ->
                LET r == CircleFullJsonChStart(req)
                IN  IF ~r.ok THEN {Returns(l, r.resp, d)}
                    ELSE {Goes([l EXCEPT !.pc = "await_lcs"], d)}
          [] l.pc = "await_metas" /\ req.shape = "oid" ->
                LET m == SelectMetaForOids(content.meta, SeqToSet(l.oids), TRUE)
                IN  {IF short
                     THEN Goes([l EXCEPT !.pc = "await_metas_short", !.metas = m,
                                         !.todo = order], d)
                     ELSE SiteLoop([l EXCEPT !.metas = m], order, EmptyMap) :
                            order \in Perms(DOMAIN m)}
          [] l.pc = "await_metas_short" /\ req.shape = "oid" ->
                LET ms == SelectMetaForOids(content.short, SeqToSet(l.oids), TRUE)
                IN  {SiteLoop([l EXCEPT !.metas_short = ms], l.todo, EmptyMap)}
          [] l.pc = "await_lc" ->
                {LET pm == prepare_meta(l.metas[l.cur], ShortOf(l.metas_short, l.cur))
                     entry == [meta |-> pm.val, lc |-> ProjectLc(lc, LC_FIELDS_V3)]
                 IN  IF pm.ok THEN SiteLoop(l, l.todo, (l.cur :> entry) @@ d)
                     ELSE Returns(l, pm.resp, d) :
                    lc \in SelectLcForOidH3(content.obs, l.cur,
                                            l.metas[l.cur].h3index10, "v3")}
          [] l.pc = "await_lcs" ->
                LET c == ra_dec_radius_from_request(req, MAX_RADIUS).val
                IN  {IF rows = <<>> THEN Returns(l, JsonResponse(EmptyMap), d)
                     ELSE Goes([l EXCEPT !.pc = "await_metas", !.lcs = rows], d) :
                        rows \in SelectLcsInCircle(content.obs, c.ra, c.radius, "v3")}
          [] l.pc = "await_metas" /\ req.shape = "circle" ->
                LET m == SelectMetaForOids(content.meta, OidsOfLcs(l.lcs), TRUE)
                IN  IF OidsDiffer(OidsOfLcs(l.lcs), DOMAIN m)
                    THEN {Returns(l, HTTPInternalServerError("different_oids"), d)}
                    ELSE IF short
                    THEN {Goes([l EXCEPT !.pc = "await_metas_short", !.metas = m], d)}
                    ELSE {SiteAssemble([l EXCEPT !.metas = m], m, EmptyMap, d)}
          [] l.pc = "await_metas_short" /\ req.shape = "circle" ->
                LET ms == SelectMetaForOids(content.short, OidsOfLcs(l.lcs), TRUE)
                IN  {SiteAssemble([l EXCEPT !.metas_short = ms], l.metas, ms, d)}
          [] OTHER -> {}

\* Request r runs to its next await, whatever the others are doing.
HandlerRuns ==
    \E r \in Concurrent :
        /\ site.task[r].pc # "done"
        /\ \E n \in HandlerStep(site.task[r], site.data[Slot(r)], site.db) :
              site' = [site EXCEPT !.task[r] = n.l, !.data[Slot(r)] = n.d]
        /\ UNCHANGED besideSite

NextSite == HandlerRuns

SpecSite == InitSite /\ [][NextSite]_vars

----------------------------------------------------------------------------
(* Vocabulary of the properties *)

Done == pc = "done"

ClientError(r) == r.status \in 400..499

ServerError(r) == r.status \in 500..599

\* The reasons with which a handler rejects a parameter.
InvalidParameterReasons ==
    {"oid_missing", "oid_not_int", "oid_key_missing", "json_parse", "json_not_list",
     "method", "radec_missing", "radec_not_float", "radius_range", "fieldid_not_int"}

\* ra, dec and radius_arcsec are all given and are floats.
FloatsGiven(req) ==
    \A p \in {req.ra, req.dec, req.radius_arcsec} : p.present /\ PyFloat(p.s).ok

RadiusGiven(req) == PyFloat(req.radius_arcsec.s).val

\* What a by-region request needs besides ra, dec and radius.
RestOfCircleValid(req) ==
    /\ req.version = "v3" => req.dr \in AVAILABLE_DRS
    /\ \A i \in 1..Len(req.fieldid) : PyInt(JStr(req.fieldid[i])).ok
    /\ \A i \in 1..Len(req.not_fieldid) : PyInt(JStr(req.not_fieldid[i])).ok

----------------------------------------------------------------------------
(* C1 *)

\* C1: for every by-region request, on every API version, a radius <= 0 or
\* > 60 arcsec fails with InvalidQueryParameter (a client error that names
\* the radius, before any backend call), and a radius of exactly 60 is
\* accepted and proceeds to the backend query.
C1_RadiusBoundaryEveryVersion ==
    (request.shape = "circle" /\ FloatsGiven(request)) =>
        LET r == RadiusGiven(request)
        IN  /\ (Done /\ ~r.nan /\ (r.v <= 0 \/ r.v > 60)) =>
                    /\ response.reason = "radius_range"
                    /\ ClientError(response)
                    /\ queries = <<>>
            /\ (~r.nan /\ r.v = 60 /\ RestOfCircleValid(request)) =>
                    queries # <<>>

\* The same without the first generation (src/app.py), whose radius check
\* answers with status 200.
C1_RadiusBoundarySinceUtil ==
    request.version # "v1old" => C1_RadiusBoundaryEveryVersion

C1_Witness ==
    /\ Done
    /\ request.shape = "circle"
    /\ request.version = "v1old"
    /\ FloatsGiven(request)
    /\ RadiusGiven(request) = Num(0)
    /\ response.reason = "radius_range"

----------------------------------------------------------------------------
(* C2 *)

Postgres(req) == req.version \in {"v1", "v1old"}

\* The identifiers the by-region request found in the region: those of the
\* observation rows (ClickHouse), those of the region query (Postgres).
RegionOids == IF Postgres(request) THEN SeqToSet(oids) ELSE OidsOfLcs(lcs)

----------------------------------------------------------------------------
(* C3 *)

\* A string that converts to a non-negative integer.
ValidOid(x) == x.type = "str" /\ PyInt(x).ok /\ PyInt(x).val >= 0

AllOidsValid(req) ==
    req.oid.present /\ \A i \in 1..Len(req.oid.list) : ValidOid(req.oid.list[i])

RequestedOids(req) == {PyInt(req.oid.list[i]).val : i \in 1..Len(req.oid.list)}

ReleaseKnown(req) == req.version = "v3" => req.dr \in AVAILABLE_DRS

\* C3: a by-identifier request with valid identifiers answers with the
\* mapping of exactly the requested identifiers that have a summary row: an
\* absent identifier raises no error (only a summary row with an unknown
\* passband can fail the request), and the entry of every identifier is
\* built from that identifier's own rows.
C3_AbsentIdentifierOmitted ==
    (Done /\ request.shape = "oid" /\ AllOidsValid(request)
          /\ ReleaseKnown(request) /\ ~fault) =>
        /\ response.json \/ response.exc = "KeyError"
        /\ response.json =>
            /\ Keys(response.body) \subseteq RequestedOids(request)
            /\ ~Postgres(request) =>
                /\ Keys(response.body) = DOMAIN metas
                /\ \A o \in DOMAIN metas :
                    response.body[o].meta =
                        PrepareMetaOf(request.version, metas[o],
                                      ShortOf(metas_short, o)).val

\* The same without src/app/app/v2.py, whose by-identifier handler raises
\* TypeError on every request.
C3_AbsentIdentifierOmittedButV2 ==
    request.version # "v2" => C3_AbsentIdentifierOmitted

----------------------------------------------------------------------------
(* C4 *)

NonDecreasingMjd(lc) == \A i, j \in 1..Len(lc) : i < j => lc[i].mjd <= lc[j].mjd

\* C4: in every response, by identifier and by region, the observations of
\* each object are in non-decreasing mjd order, whatever the backend holds
\* (also when one identifier has rows under more than one cell index).
C4_ObservationsOrdered ==
    (Done /\ response.json) =>
        \A o \in Keys(response.body) : NonDecreasingMjd(response.body[o].lc)

\* The same without the by-region handler of src/app/v3.py.
C4_ObservationsOrderedButV3Region ==
    ~(request.version = "v3" /\ request.shape = "circle") => C4_ObservationsOrdered

----------------------------------------------------------------------------
(* C5 *)

\* C5: a by-region request whose region matches no rows returns an empty
\* mapping and not an error, on every API version, and no summary fetch
\* with an empty identifier list is issued on the way.
C5_EmptyRegionEmptyMapping ==
    (request.shape = "circle") =>
        /\ \A i \in 1..Len(queries) : ~queries[i].emptyin
        /\ (Done /\ queries # <<>> /\ ~fault /\ RegionOids = {}) =>
                response = JsonResponse(EmptyMap)

\* The same without the by-region handler of src/app/app/v2.py.
C5_EmptyRegionButV2 ==
    request.version # "v2" => C5_EmptyRegionEmptyMapping

----------------------------------------------------------------------------
(* C6 *)

\* The parameters of a v3 request pass the checks made before the release
\* is resolved.
V3ParametersValid(req) ==
    IF req.shape = "oid" THEN oids_from_request(req).ok
    ELSE ra_dec_radius_from_request(req, MAX_RADIUS).ok

UnknownRelease(r) == ~r.ok /\ r.resp.exc = "HTTPNotFound" /\ r.resp.status = 404

\* C6: the three table lookups of a release name all succeed or all fail; a
\* name outside the catalogue fails each of them with UnknownRelease (404),
\* no backend query is issued for its request, and the request ends as
\* UnknownRelease unless its parameters were rejected first; "latest"
\* resolves to the tables of the release it points to, and only those tables
\* are queried.
C6_ReleaseResolution ==
    (request.version = "v3") =>
        LET dr == request.dr
            o == observation_table(dr)
            m == meta_table(dr)
            s == meta_short_table(dr)
        IN  /\ (o.ok /\ m.ok /\ s.ok) \/ (~o.ok /\ ~m.ok /\ ~s.ok)
            /\ dr \in AVAILABLE_DRS => o.ok
            /\ dr \notin AVAILABLE_DRS =>
                /\ UnknownRelease(o) /\ UnknownRelease(m) /\ UnknownRelease(s)
                /\ queries = <<>>
                /\ Done =>
                    /\ ClientError(response)
                    /\ V3ParametersValid(request) =>
                            response = HTTPNotFound("dr_not_supported")
                    /\ ~V3ParametersValid(request) =>
                            response.reason \in InvalidParameterReasons
            /\ dr = "latest" =>
                /\ o = observation_table(LATEST_DR)
                /\ m = meta_table(LATEST_DR)
                /\ s = meta_short_table(LATEST_DR)
                /\ \A i \in 1..Len(queries) :
                        queries[i].table \in {o.val, m.val, s.val} \ {NoTable}

C6_Witness ==
    /\ Done
    /\ request.version = "v3"
    /\ request.dr \notin AVAILABLE_DRS
    /\ V3ParametersValid(request)
    /\ response.exc = "HTTPNotFound"
    /\ queries = <<>>

----------------------------------------------------------------------------
(* C7 *)

\* C7: a by-identifier request returns a mapping only when every identifier
\* has been worked through, and the mapping is the assembled one; a request
\* that fails on the way (a backend error, an unknown passband code, a later
\* identifier that does not convert) ends in an error that carries none of
\* the entries assembled before.
C7_NoHalfPopulatedMapping ==
    (Done /\ request.shape = "oid") =>
        IF response.json
        THEN /\ todo = <<>>
             /\ response.body = data
             /\ response.status = 200
        ELSE /\ response.body = EmptyMap
             /\ response.status >= 400

\* A request fails after an entry has been assembled.
C7_Witness ==
    /\ Done
    /\ request.shape = "oid"
    /\ data # EmptyMap
    /\ ~response.json
    /\ response.status >= 400

----------------------------------------------------------------------------
(* C8 *)

\* C8: every rejection of a parameter (ra, dec, radius missing or no float,
\* radius outside (0, 60], a field id or an identifier that is no integer)
\* is answered with a client-error status and never with a success status,
\* on every API version.
C8_InvalidParameterIsClientError ==
    (Done /\ response.reason \in InvalidParameterReasons) =>
        /\ ClientError(response)
        /\ ~response.json

\* The same without the radius check of src/app.py.
C8_InvalidParameterButV1OldRadius ==
    ~(request.version = "v1old" /\ response.reason = "radius_range") =>
        C8_InvalidParameterIsClientError

----------------------------------------------------------------------------
(* C9 *)

\* The identifiers a request supplies, as they are before conversion.
SuppliedOids(req) ==
    IF req.version # "v3" /\ req.method = "POST"
    THEN [i \in 1..Len(req.body.items) |-> req.body.items[i].value]
    ELSE req.oid.list

\* C9: the identifiers of a request are accepted only if each of them is a
\* string that converts to a non-negative integer; a request that is not
\* accepted fails with InvalidQueryParameter (a client error), never with a
\* server error.
C9_OnlyNonNegativeIntegers ==
    (request.shape = "parse") =>
        /\ pc = "parsed" =>
                \A i \in 1..Len(SuppliedOids(request)) :
                    ValidOid(SuppliedOids(request)[i])
        /\ Done =>
                /\ response.reason \in InvalidParameterReasons
                /\ ClientError(response)

----------------------------------------------------------------------------
(* C10 *)

\* The release a name resolves to is one of those with a short-summary table.
HasShortTable(dr) == table_name_from_dr(dr).val \in SHORT_META_DRS

HasShortKeys(meta) == {"ngoodobs_short", "duration_short"} \subseteq DOMAIN meta

HasNoShortKey(meta) == {"ngoodobs_short", "duration_short"} \cap DOMAIN meta = {}

ShortQueried == \E i \in 1..Len(queries) : queries[i].table.suffix = "_meta_short"

V3Answered == Done /\ request.version = "v3" /\ response.json

\* C10 as stated: for a release with a short-summary table every returned
\* object carries both short-window keys, taken from its short-summary row;
\* for a release without one no object carries either key and no
\* short-summary query is issued.
C10_ShortKeysOnEveryObject ==
    (request.version = "v3" /\ request.dr \in AVAILABLE_DRS) =>
        IF HasShortTable(request.dr)
        THEN V3Answered =>
                \A o \in Keys(response.body) :
                    /\ o \in DOMAIN metas_short
                    /\ HasShortKeys(response.body[o].meta)
                    /\ response.body[o].meta.ngoodobs_short = metas_short[o].ngoodobs
                    /\ response.body[o].meta.duration_short = metas_short[o].durgood
        ELSE /\ ~ShortQueried
             /\ V3Answered =>
                    \A o \in Keys(response.body) : HasNoShortKey(response.body[o].meta)

\* C10: for a release with a short-summary table a returned object carries
\* both short-window keys, with the values of its own short-summary row, if
\* the short-summary fetch returned a row for it (a row with ngoodobs > 0),
\* and neither key otherwise; for a release without a short-summary table
\* (also through "latest") no object carries either key and no
\* short-summary query is issued.
C10_ShortKeysWhereRowReturned ==
    (request.version = "v3" /\ request.dr \in AVAILABLE_DRS) =>
        IF HasShortTable(request.dr)
        THEN V3Answered =>
                \A o \in Keys(response.body) :
                    IF o \in DOMAIN metas_short
                    THEN /\ HasShortKeys(response.body[o].meta)
                         /\ response.body[o].meta.ngoodobs_short = metas_short[o].ngoodobs
                         /\ response.body[o].meta.duration_short = metas_short[o].durgood
                    ELSE HasNoShortKey(response.body[o].meta)
        ELSE /\ ~ShortQueried
             /\ V3Answered =>
                    \A o \in Keys(response.body) : HasNoShortKey(response.body[o].meta)

\* An answer of a release with a short-summary table in which one object has
\* a short-summary row and another has none.
C10_Witness ==
    /\ V3Answered
    /\ HasShortTable(request.dr)
    /\ \E o \in Keys(response.body) : HasShortKeys(response.body[o].meta)
    /\ \E o \in Keys(response.body) : o \notin DOMAIN metas_short

----------------------------------------------------------------------------
(* C11 *)

\* The observation fields each schema version lists; the Postgres
\* generations list none of their own.
Whitelist(version) ==
    IF version \in {"v2", "v2old"}
    THEN {"mjd", "mag", "magerr", "clrcoeff", "catflags"}
    ELSE {"mjd", "mag", "magerr", "clrcoeff"}

\* The observations of a response.
ResponseObservations ==
    UNION {SeqToSet(response.body[o].lc) : o \in Keys(response.body)}

----------------------------------------------------------------------------
(* C12 *)

\* Two values of the grid agree within the tolerance: one spacing.
Within(f, x) == ~f.nan /\ Abs(f.v - x) <= 1

\* C12: decoding the wire text of an encoded point gives back its ra and
\* dec within the tolerance, and decoding the wire text of an encoded circle
\* gives back its centre and its radius in arcseconds.
C12_CodecRoundTrip ==
    (codec.stage = "decoded") =>
        /\ codec.back.ok
        /\ Within(codec.back.ra, codec.value.ra)
        /\ Within(codec.back.dec, codec.value.dec)
        /\ codec.kind = "circle" => Within(codec.back.radius, codec.value.radius)

\* A circle with a negative declination and the largest radius has been
\* through the codec.
C12_Witness ==
    /\ codec.stage = "decoded"
    /\ codec.kind = "circle"
    /\ codec.value.dec < 0
    /\ codec.value.radius = 480
    /\ codec.back.ok

----------------------------------------------------------------------------
(* C13 *)

\* C13: a by-region request that ends with a rejected parameter (ra, dec or
\* radius missing or no float, radius out of range, a field id that is no
\* integer) has issued no backend call.
C13_NoBackendCallBeforeRejection ==
    (request.shape = "circle" /\ Done /\ response.reason \in InvalidParameterReasons) =>
        queries = <<>>

\* The last of the checks, the field ids of src/app/app/v1.py, rejects a
\* request whose ra, dec and radius are good.
C13_Witness ==
    /\ Done
    /\ request.shape = "circle"
    /\ request.version = "v1"
    /\ ra_dec_radius_from_request(request, MAX_RADIUS).ok
    /\ response.reason = "fieldid_not_int"
    /\ queries = <<>>

----------------------------------------------------------------------------
(* C14 *)

OptionalParts == {FilterPart, NotFilterPart, FieldidPart, NotFieldidPart}

\* The argument a predicate is about.
ArgOfPart(part, args) ==
    CASE part = CirclePart -> CircleArg(args.circle)
      [] part = FilterPart -> NamesArg(args.filters)
      [] part = NotFilterPart -> NamesArg(args.not_filters)
      [] part = FieldidPart -> IntsArg(args.fieldids)
      [] part = NotFieldidPart -> IntsArg(args.not_fieldids)

PartRank(part) ==
    CASE part = CirclePart -> 1
      [] part = FilterPart -> 2
      [] part = NotFilterPart -> 3
      [] part = FieldidPart -> 4
      [] part = NotFieldidPart -> 5

GivenList(part, args) ==
    LET a == ArgOfPart(part, args) IN a.names # <<>> \/ a.ints # <<>>

\* C14: the predicates and the bound arguments are as many; the circle
\* predicate is there with placeholder 1; an optional predicate is there iff
\* its list is not empty; the placeholders are 1..n in the order circle,
\* filter, not filter, field, not field; the k-th argument is the value of
\* the predicate with placeholder k.
C14_PredicatesMatchArguments ==
    builder.stage = "built" =>
        LET parts == builder.where_parts
            values == builder.values
            args == builder.args
        IN  /\ Len(parts) = Len(values)
            /\ Len(parts) >= 1
            /\ parts[1] = [template |-> CirclePart, placeholder |-> 1]
            /\ \A o \in OptionalParts :
                   (\E k \in 1..Len(parts) : parts[k].template = o) <=> GivenList(o, args)
            /\ \A k \in 1..Len(parts) : parts[k].placeholder = k
            /\ \A j, k \in 1..Len(parts) :
                   j < k => PartRank(parts[j].template) < PartRank(parts[k].template)
            /\ \A k \in 1..Len(parts) :
                   k <= Len(values) /\ values[k] = ArgOfPart(parts[k].template, args)

\* A clause with a gap in the lists: filters and excluded fields given, the
\* two lists between them empty.
C14_Witness ==
    /\ builder.stage = "built"
    /\ builder.args.filters # <<>>
    /\ builder.args.not_filters = <<>>
    /\ builder.args.fieldids = <<>>
    /\ builder.args.not_fieldids # <<>>
    /\ Len(builder.values) = 3
    /\ builder.where_parts[3] = [template |-> NotFieldidPart, placeholder |-> 3]

----------------------------------------------------------------------------
(* C15 *)

ClickHouseRegion == request.shape = "circle" /\ request.version \in {"v2", "v3"}

\* The identifiers of the observation result.
ObservationOids == {lcs[i].oid : i \in 1..Len(lcs)}

\* The rows of the observation result that carry an identifier, in the
\* order of the result, as they are shown.
RowsOfOid(oid) ==
    LET mine == SelectSeq(lcs, LAMBDA obs : obs.oid = oid)
    IN  [i \in 1..Len(mine) |-> ProjectObs(mine[i], LC_FIELDS(request.version))]

SummaryQuery(q) == q.table.suffix \in {"_meta", "_meta_short"}

\* The rows of some identifier are apart in the observation result.
Interleaved ==
    \E i, j, k \in 1..Len(lcs) :
        i < j /\ j < k /\ lcs[i].oid = lcs[k].oid /\ lcs[j].oid # lcs[i].oid

\* C15: by region (ClickHouse), every summary fetch is issued for the
\* identifiers of the observation result, the keys of the mapping returned
\* are those identifiers, and each object's lc is the rows of its
\* identifier, each once, in the order of the observation result.
C15_RegionAssembly ==
    ClickHouseRegion =>
        /\ \A i \in 1..Len(queries) :
               SummaryQuery(queries[i]) => queries[i].oidset = ObservationOids
        /\ (Done /\ response.json) =>
               /\ Keys(response.body) = ObservationOids
               /\ \A oid \in Keys(response.body) : response.body[oid].lc = RowsOfOid(oid)

\* A mapping is returned for a result in which the rows of one identifier
\* are apart.
C15_Witness ==
    /\ ClickHouseRegion
    /\ Done
    /\ response.json
    /\ Interleaved
    /\ Cardinality(Keys(response.body)) = 2
    /\ \E i \in 1..Len(queries) : SummaryQuery(queries[i])

----------------------------------------------------------------------------
(* C16, C17 *)

\* try_for_a_while left its loop and executed its raise statement.
TimedOut == startup.stage = "failed" /\ startup.exc # "ChClientError"

ConfiguredPair ==
    [wait_for |-> startup.wait_for, interval |-> startup.interval] \in
        {[wait_for |-> WaitForV3, interval |-> IntervalV3],
         [wait_for |-> WaitForV2, interval |-> IntervalV2]}

\* C16: when every probe fails to connect, try_for_a_while gives up once the
\* deadline has passed and ends in RuntimeError, whatever the deadline, also
\* one that lets no probe be made; the client is in the application only
\* after a probe succeeded, and no request is served without it.
C16_GivesUpWithRuntimeError ==
    /\ TimedOut =>
            /\ startup.now - startup.t_start >= startup.wait_for
            /\ startup.exc = "RuntimeError"
    /\ startup.ch_client => startup.probed
    /\ startup.served => startup.ch_client

\* C17: under a configured (deadline, interval) pair a probe that failed to
\* connect is tried again at least once before the deadline ends the
\* startup.
C17_RetriedBeforeFatal ==
    (TimedOut /\ ConfiguredPair /\ startup.tries >= 1) => startup.tries >= 2

----------------------------------------------------------------------------
(* C18 *)

HeldBy(r) == pool.task[r].held

RECURSIVE HeldUpTo(_)
HeldUpTo(n) == IF n = 0 THEN 0 ELSE HeldBy(n) + HeldUpTo(n - 1)

\* A request holds at most one connection, holds none while it waits for
\* one and none once it has ended, however it ended; the pool hands out
\* no more connections than it has.
PoolDiscipline ==
    /\ \A r \in Tasks :
        /\ HeldBy(r) <= 1
        /\ pool.task[r].pc = "acquire" => HeldBy(r) = 0
        /\ pool.task[r].pc = "done" => HeldBy(r) = 0
    /\ pool.free >= 0
    /\ pool.free + HeldUpTo(MaxTasks) = pool.size

AllEnded == \A r \in Tasks : pool.task[r].pc = "done"

\* C18: for every pool size and every mix of requests the discipline above
\* always holds, and every request, also one that had to wait for a
\* connection, comes to its end.
C18_PoolCapacity == []PoolDiscipline /\ <>AllEnded

\* More requests than connections: a request that gave its first
\* connection back waits for its second while another request holds the
\* only one there is.
C18_Witness ==
    /\ pool.size < MaxTasks
    /\ pool.free = 0
    /\ \E r \in Tasks : /\ pool.task[r].pc = "acquire"
                        /\ pool.task[r].kind = "circle"
                        /\ pool.task[r].phase = "loop"
    /\ \E r \in Tasks : pool.task[r].held = 1

----------------------------------------------------------------------------
(* C19 *)

\* The responses a request may end with when it is the only one: its
\* handler run from the start on the same tables.
RECURSIVE Outcomes(_, _)
Outcomes(S, db) ==
    IF \A x \in S : x.l.pc = "done" THEN {x.l.response : x \in S}
    ELSE Outcomes(UNION {IF x.l.pc = "done" THEN {x} ELSE HandlerStep(x.l, x.d, db) :
                            x \in S}, db)

Alone(req, db) == Outcomes({Goes(Locals(req), EmptyMap)}, db)

\* C19: a request that ran between the steps of another one ends with a
\* response it could have ended with running alone on the same tables.
C19_RequestIsolation ==
    \A r \in DOMAIN site.task :
        site.task[r].pc = "done" =>
            site.task[r].response \in Alone(site.task[r].request, site.db)

\* Request 1 has returned a mapping of two objects, built over two fetches,
\* while request 2 is in the middle of building its own.
C19_Witness ==
    /\ DOMAIN site.task = Concurrent
    /\ site.task[1].pc = "done"
    /\ site.task[1].request.shape = "oid"
    /\ site.task[1].response.json
    /\ Cardinality(Keys(site.task[1].response.body)) = 2
    /\ site.task[2].request.shape = "oid"
    /\ site.task[2].pc = "await_lc"
    /\ site.task[2].todo # <<>>

----------------------------------------------------------------------------
(* C20 *)

\* A summary row fetched for the request has a passband code that FILTERS
\* does not list.
UnknownPassbandFetched == \E oid \in DOMAIN metas : metas[oid].filter \notin DOMAIN FILTERS

PassbandNames == {FILTERS[code] : code \in DOMAIN FILTERS}

\* C20: a v3 request whose summary rows include a passband code outside
\* FILTERS ends in a fault, and every object of a mapping that is returned
\* has a passband name of FILTERS.
C20_UnknownPassbandFails ==
    (Done /\ request.version = "v3") =>
        /\ UnknownPassbandFetched =>
                /\ ServerError(response)
                /\ ~response.json
                /\ response.body = EmptyMap
        /\ response.json =>
                \A oid \in Keys(response.body) :
                    /\ "filter" \in DOMAIN response.body[oid].meta
                    /\ response.body[oid].meta.filter \in PassbandNames

\* The lookup itself ends a by-region request whose rows passed the guard.
C20_Witness ==
    /\ Done
    /\ request.version = "v3"
    /\ request.shape = "circle"
    /\ ~fault
    /\ UnknownPassbandFetched
    /\ OidsOfLcs(lcs) = DOMAIN metas
    /\ response.exc = "KeyError"

----------------------------------------------------------------------------
(* C21 *)

NoneOf(s, chars) == \A i \in 1..Len(s) : s[i] \notin chars

Bracketed(s, open, close) ==
    /\ Len(s) >= 2
    /\ s[1] = open
    /\ s[Len(s)] = close
    /\ NoneOf(SubSeq(s, 2, Len(s) - 1), {open, close})

\* "(ra, dec)": one pair of round brackets around two numbers.
PointGrammar(s) ==
    /\ Bracketed(s, "(", ")")
    /\ LET inner == SubSeq(s, 2, Len(s) - 1)
       IN  /\ Cardinality(Places(inner, ",")) = 1
           /\ \A i \in 1..2 : FloatOfText(Split(inner, ",")[i]).ok

\* "<point, radius>": one pair of angle brackets around a point and a number.
CircleGrammar(s) ==
    /\ Bracketed(s, "<", ">")
    /\ LET inner == SubSeq(s, 2, Len(s) - 1)
           last == CHOOSE k \in Places(inner, ",") : \A j \in Places(inner, ",") : k >= j
       IN  /\ Places(inner, ",") # {}
           /\ PointGrammar(Strip(SubSeq(inner, 1, last - 1), {" "}))
           /\ FloatOfText(SubSeq(inner, last + 1, Len(inner))).ok

WireGrammar ==
    IF codec.kind = "point" THEN PointGrammar(codec.wire) ELSE CircleGrammar(codec.wire)

\* C21: a wire text that is not of the grammar "(ra, dec)" of a point or
\* "<point, radius>" of a circle does not decode to a value: the decoder
\* fails with MalformedCoordinate.
C21_MalformedWireFails ==
    (codec.stage = "decoded" /\ ~WireGrammar) =>
        /\ ~codec.back.ok
        /\ codec.back.exc = "MalformedCoordinate"

----------------------------------------------------------------------------
(* C22 *)

\* A by-region request of a ClickHouse generation whose parameters were
\* accepted, with a radius that is a number.
CoarseFilterUsed ==
    /\ request.shape = "circle"
    /\ request.version \in {"v2", "v3"}
    /\ queries # <<>>
    /\ ~ra_dec_radius_from_request(request, MAX_RADIUS).val.ra.nan
    /\ ~ra_dec_radius_from_request(request, MAX_RADIUS).val.radius.nan

RequestRadius == ra_dec_radius_from_request(request, MAX_RADIUS).val.radius.v

RequestCell == GeoToH3(ra_dec_radius_from_request(request, MAX_RADIUS).val.ra.v)

\* ceil(a / b) of positive integers
CeilDiv(a, b) == (a + b - 1) \div b

\* C22: the rings asked for around the centre cell are
\* ceil(radius / edge angle) + 1, and every row returned lies in one of
\* those cells and closer to the centre than the radius.
C22_RingsCoverRadius ==
    CoarseFilterUsed =>
        /\ RingSize(RequestRadius) = CeilDiv(RequestRadius, H3EdgeAngle10) + 1
        /\ \A i \in 1..Len(lcs) :
               lcs[i].h3index10 \in H3kRing(RequestCell, RingSize(RequestRadius))

----------------------------------------------------------------------------
(* C23 *)

StartupOver == startup.stage \in {"up", "failed"}

\* A step of the startup that keeps to the rule.
ProbeRuleKept ==
    /\ (startup.stage = "probing" /\ startup'.probed) =>
            /\ startup'.stage = "up"
            /\ startup'.ch_client
    /\ (startup.stage = "probing" /\ startup'.exc = "ChClientError") =>
            startup'.stage = "failed"
    /\ StartupOver =>
            /\ startup'.stage = startup.stage
            /\ startup'.tries = startup.tries
            /\ startup'.now = startup.now
            /\ startup'.exc = startup.exc

\* C23: a probe that succeeds ends try_for_a_while with its result, a probe
\* that raises an exception of another type than the configured one ends it
\* with that exception, without a sleep; after either no probe is made.
C23_OnlyConfiguredTypeRetried == [][ProbeRuleKept]_vars

\* The second probe, made after a connectivity fault and a sleep, raised an
\* exception of another type and ended the startup.
C23_Witness ==
    /\ startup.stage = "failed"
    /\ startup.exc = "ChClientError"
    /\ startup.tries = 2
    /\ startup.now >= startup.interval

====
